---------------------------- MODULE Spec2Model ----------------------------
(***************************************************************************)
(* NMS-Inventory: decode-and-normalise pipeline.                           *)
(*                                                                         *)
(* Bytes are integers 0..255, byte buffers are sequences of bytes, Python  *)
(* str values are sequences of code points.  JSON values are tagged        *)
(* records [t, v]; a dict keeps its items as an ordered sequence of        *)
(* <<key, value>> pairs (Python dicts keep insertion order).               *)
(*                                                                         *)
(* Library calls are modelled by what they do on the modelled inputs:      *)
(*  - json.loads / json.dumps: the JSON grammar with integer numbers       *)
(*    (fractions, exponents, NaN and Infinity are outside the byte         *)
(*    alphabet the specifications draw their inputs from);                 *)
(*  - bytes.decode for utf-8, utf-16, utf-32 and latin-1, strict;          *)
(*  - lz4.block.decompress: the LZ4 block format (literals and matches);   *)
(*  - gzip, lz4.frame and zlib: their outcome is an input of the decoder   *)
(*    (a buffer, or None), constrained only where the code constrains it.  *)
(***************************************************************************)
EXTENDS Integers, Sequences, FiniteSets, TLC

\* ------------------------------------------------------------------------
\* Sequence helpers
\* ------------------------------------------------------------------------

Range(s) == {s[i] : i \in DOMAIN s}

Min2(a, b) == IF a <= b THEN a ELSE b

Max2(a, b) == IF a >= b THEN a ELSE b

\* s[i:] of Python for a 1-based position i (the rest of s from i on)
From(s, i) == SubSeq(s, i, Len(s))

\* bytes.startswith
StartsWith(s, p) == Len(s) >= Len(p) /\ SubSeq(s, 1, Len(p)) = p

\* bytes.find(p, pos) for 1-based positions: the least i >= pos at which p
\* occurs in s, or 0 when there is none
FindFrom(s, p, pos) ==
    LET hits == {i \in pos..(Len(s) - Len(p) + 1) : SubSeq(s, i, i + Len(p) - 1) = p}
    IN IF hits = {} THEN 0 ELSE CHOOSE i \in hits : \A j \in hits : i <= j

\* bytes.rfind of a single byte: the greatest position holding c, or 0
RFindByte(s, c) ==
    LET hits == {i \in DOMAIN s : s[i] = c}
    IN IF hits = {} THEN 0 ELSE CHOOSE i \in hits : \A j \in hits : i >= j

RECURSIVE Concat(_)
Concat(ss) == IF ss = <<>> THEN <<>> ELSE Head(ss) \o Concat(Tail(ss))

\* bytes.rstrip(b"\x00")
RECURSIVE RStripNul(_)
RStripNul(b) ==
    IF Len(b) > 0 /\ b[Len(b)] = 0 THEN RStripNul(SubSeq(b, 1, Len(b) - 1)) ELSE b

\* ------------------------------------------------------------------------
\* JSON values
\* ------------------------------------------------------------------------

JNull == [t |-> "null", v |-> 0]

JBool(x) == [t |-> "bool", v |-> x]

JInt(n) == [t |-> "int", v |-> n]

JStr(s) == [t |-> "str", v |-> s]

JList(items) == [t |-> "list", v |-> items]

JDict(pairs) == [t |-> "dict", v |-> pairs]

\* The outcome of a call that may fail: None / an exception is ok = FALSE
None == [ok |-> FALSE, v |-> <<>>]

Some(x) == [ok |-> TRUE, v |-> x]

\* dict keys, in insertion order
DictKeys(pairs) == [i \in DOMAIN pairs |-> pairs[i][1]]

DictHas(pairs, k) == \E i \in DOMAIN pairs : pairs[i][1] = k

\* d[k] for a key the dict holds
DictAt(pairs, k) == pairs[CHOOSE i \in DOMAIN pairs : pairs[i][1] = k][2]

\* d[k] = val: a new key goes last, an old key keeps its place
DictSet(pairs, k, val) ==
    IF DictHas(pairs, k)
    THEN [i \in DOMAIN pairs |-> IF pairs[i][1] = k THEN <<k, val>> ELSE pairs[i]]
    ELSE Append(pairs, <<k, val>>)

\* Python's == on parsed JSON values: dicts compare as mappings, whatever the
\* order of their keys; lists compare item by item
RECURSIVE JEq(_, _)
JEq(a, b) ==
    /\ a.t = b.t
    /\ CASE a.t = "list" ->
              /\ Len(a.v) = Len(b.v)
              /\ \A i \in DOMAIN a.v : JEq(a.v[i], b.v[i])
         [] a.t = "dict" ->
              /\ Range(DictKeys(a.v)) = Range(DictKeys(b.v))
              /\ Len(a.v) = Len(b.v)
              /\ \A i \in DOMAIN a.v : JEq(a.v[i][2], DictAt(b.v, a.v[i][1]))
         [] OTHER -> a.v = b.v


\* ------------------------------------------------------------------------
\* json.loads on a str (a sequence of code points)
\* ------------------------------------------------------------------------

\* A parse step's outcome: the value and the position after it
PFail == [ok |-> FALSE, v |-> JNull, i |-> 0]

POk(val, i) == [ok |-> TRUE, v |-> val, i |-> i]

JsonWs == {32, 9, 10, 13}

RECURSIVE SkipWs(_, _)
SkipWs(s, i) == IF i <= Len(s) /\ s[i] \in JsonWs THEN SkipWs(s, i + 1) ELSE i

IsDigit(c) == c >= 48 /\ c <= 57

IsHex(c) == IsDigit(c) \/ (c >= 97 /\ c <= 102) \/ (c >= 65 /\ c <= 70)

HexVal(c) == IF IsDigit(c) THEN c - 48 ELSE IF c >= 97 THEN c - 87 ELSE c - 55

\* the four hex digits at s[i..i+3], or -1
Hex4(s, i) ==
    IF i + 3 <= Len(s) /\ \A k \in 0..3 : IsHex(s[i + k])
    THEN HexVal(s[i]) * 4096 + HexVal(s[i + 1]) * 256 + HexVal(s[i + 2]) * 16 + HexVal(s[i + 3])
    ELSE -1

\* the one-character escapes of a JSON string: " \ / b f n r t
SimpleEscape(c) ==
    CASE c = 34 -> 34 [] c = 92 -> 92 [] c = 47 -> 47 [] c = 98 -> 8
      [] c = 102 -> 12 [] c = 110 -> 10 [] c = 114 -> 13 [] c = 116 -> 9
      [] OTHER -> -1

IsHighSurrogate(u) == u >= 55296 /\ u <= 56319

IsLowSurrogate(u) == u >= 56320 /\ u <= 57343

IsSurrogate(u) == u >= 55296 /\ u <= 57343

\* json.decoder scanstring (strict): s[i] is the first character after the
\* opening quote.  A \uD8xx escape followed by a \uDCxx escape is one code
\* point; a surrogate escape on its own is kept as it is.
RECURSIVE ScanString(_, _, _)
ScanString(s, i, acc) ==
    IF i > Len(s) THEN PFail
    ELSE IF s[i] = 34 THEN POk(acc, i + 1)
    ELSE IF s[i] < 32 THEN PFail
    ELSE IF s[i] # 92 THEN ScanString(s, i + 1, Append(acc, s[i]))
    ELSE IF i + 1 > Len(s) THEN PFail
    ELSE IF s[i + 1] # 117 THEN
        IF SimpleEscape(s[i + 1]) < 0 THEN PFail
        ELSE ScanString(s, i + 2, Append(acc, SimpleEscape(s[i + 1])))
    ELSE LET u == Hex4(s, i + 2) IN
        IF u < 0 THEN PFail
        ELSE IF IsHighSurrogate(u) /\ i + 7 <= Len(s) /\ s[i + 6] = 92 /\ s[i + 7] = 117 THEN
            LET u2 == Hex4(s, i + 8) IN
            IF u2 < 0 THEN PFail
            ELSE IF IsLowSurrogate(u2)
            THEN ScanString(s, i + 12,
                            Append(acc, 65536 + (u - 55296) * 1024 + (u2 - 56320)))
            ELSE ScanString(s, i + 6, Append(acc, u))
        ELSE ScanString(s, i + 6, Append(acc, u))

RECURSIVE ScanDigits(_, _, _)
ScanDigits(s, i, n) ==
    IF i <= Len(s) /\ IsDigit(s[i]) THEN ScanDigits(s, i + 1, n * 10 + (s[i] - 48))
    ELSE POk(n, i)

\* NUMBER_RE, integer part: -?(0|[1-9][0-9]*)
ScanNumber(s, i) ==
    LET neg == s[i] = 45
        j == IF neg THEN i + 1 ELSE i
    IN IF j > Len(s) \/ ~IsDigit(s[j]) THEN PFail
       ELSE LET r == IF s[j] = 48 THEN POk(0, j + 1) ELSE ScanDigits(s, j, 0)
            IN POk(JInt(IF neg THEN 0 - r.v ELSE r.v), r.i)

Lit_null == <<110, 117, 108, 108>>

Lit_true == <<116, 114, 117, 101>>

Lit_false == <<102, 97, 108, 115, 101>>

RECURSIVE ScanValue(_, _)
RECURSIVE ScanArray(_, _, _)
RECURSIVE ScanObject(_, _, _)

\* JSONArray after an element: j is at the "," or the "]" that follows it
ArrayRest(s, j, acc) ==
    IF j > Len(s) THEN PFail
    ELSE IF s[j] = 93 THEN POk(JList(acc), j + 1)
    ELSE IF s[j] = 44 THEN ScanArray(s, SkipWs(s, j + 1), acc)
    ELSE PFail

\* JSONArray with the outcome r of scanning an element
ArrayElement(s, r, acc) ==
    IF ~r.ok THEN PFail ELSE ArrayRest(s, SkipWs(s, r.i), Append(acc, r.v))

\* JSONArray after the '[' and the first value's leading whitespace: i is at
\* a value
ScanArray(s, i, acc) == ArrayElement(s, ScanValue(s, i), acc)

\* JSONObject after a member: j is at the "," or the "}" that follows it
ObjectRest(s, j, acc) ==
    IF j > Len(s) THEN PFail
    ELSE IF s[j] = 125 THEN POk(JDict(acc), j + 1)
    ELSE IF s[j] = 44 THEN ScanObject(s, SkipWs(s, j + 1), acc)
    ELSE PFail

\* JSONObject with the outcome r of scanning the value of key (a later
\* member replaces an earlier one of the same key)
ObjectMember(s, key, r, acc) ==
    IF ~r.ok THEN PFail ELSE ObjectRest(s, SkipWs(s, r.i), DictSet(acc, key, r.v))

\* JSONObject after a key: c is at the ":"
ObjectColon(s, key, c, acc) ==
    IF c > Len(s) \/ s[c] # 58 THEN PFail
    ELSE ObjectMember(s, key, ScanValue(s, SkipWs(s, c + 1)), acc)

\* JSONObject with the outcome k of scanning a key
ObjectKey(s, k, acc) ==
    IF ~k.ok THEN PFail ELSE ObjectColon(s, k.v, SkipWs(s, k.i), acc)

\* JSONObject: i is at the opening quote of a key
ScanObject(s, i, acc) ==
    IF i > Len(s) \/ s[i] # 34 THEN PFail
    ELSE ObjectKey(s, ScanString(s, i + 1, <<>>), acc)

\* a string value from the outcome r of scanstring
StringValue(r) == IF r.ok THEN POk(JStr(r.v), r.i) ELSE PFail

\* after '{' and whitespace: the empty object, or the members
OpenObject(s, j) ==
    IF j <= Len(s) /\ s[j] = 125 THEN POk(JDict(<<>>), j + 1) ELSE ScanObject(s, j, <<>>)

\* after '[' and whitespace: the empty array, or the elements
OpenArray(s, j) ==
    IF j <= Len(s) /\ s[j] = 93 THEN POk(JList(<<>>), j + 1) ELSE ScanArray(s, j, <<>>)

\* scan_once: i is at the first character of a value
ScanValue(s, i) ==
    IF i > Len(s) THEN PFail
    ELSE IF s[i] = 34 THEN StringValue(ScanString(s, i + 1, <<>>))
    ELSE IF s[i] = 123 THEN OpenObject(s, SkipWs(s, i + 1))
    ELSE IF s[i] = 91 THEN OpenArray(s, SkipWs(s, i + 1))
    ELSE IF StartsWith(From(s, i), Lit_null) THEN POk(JNull, i + 4)
    ELSE IF StartsWith(From(s, i), Lit_true) THEN POk(JBool(TRUE), i + 4)
    ELSE IF StartsWith(From(s, i), Lit_false) THEN POk(JBool(FALSE), i + 5)
    ELSE IF s[i] = 45 \/ IsDigit(s[i]) THEN ScanNumber(s, i)
    ELSE PFail

\* the end of json.loads: anything but whitespace after the value r is
\* "Extra data"
WholeText(text, r) ==
    IF r.ok /\ SkipWs(text, r.i) > Len(text) THEN Some(r.v) ELSE None

\* json.loads(text): a leading U+FEFF is refused, whitespace around the value
\* is skipped
json_loads(text) ==
    IF Len(text) > 0 /\ text[1] = 65279 THEN None
    ELSE WholeText(text, ScanValue(text, SkipWs(text, 1)))

\* ------------------------------------------------------------------------
\* json.dumps(obj, ensure_ascii=False, separators=(",", ":"))
\* ------------------------------------------------------------------------

HexDigit(n) == IF n < 10 THEN 48 + n ELSE 87 + n

\* ESCAPE_DCT: " \ and the control characters; everything else as it is
EscapeChar(c) ==
    CASE c = 34 -> <<92, 34>> [] c = 92 -> <<92, 92>> [] c = 10 -> <<92, 110>>
      [] c = 13 -> <<92, 114>> [] c = 9 -> <<92, 116>> [] c = 8 -> <<92, 98>>
      [] c = 12 -> <<92, 102>>
      [] OTHER -> IF c < 32
                  THEN <<92, 117, 48, 48, HexDigit(c \div 16), HexDigit(c % 16)>>
                  ELSE <<c>>

EncodeString(s) == <<34>> \o Concat([i \in DOMAIN s |-> EscapeChar(s[i])]) \o <<34>>

RECURSIVE NatText(_)
NatText(n) == IF n < 10 THEN <<48 + n>> ELSE NatText(n \div 10) \o <<48 + (n % 10)>>

IntText(n) == IF n < 0 THEN <<45>> \o NatText(0 - n) ELSE NatText(n)

RECURSIVE JoinWith(_, _)
JoinWith(ss, sep) ==
    IF ss = <<>> THEN <<>>
    ELSE IF Len(ss) = 1 THEN ss[1]
    ELSE ss[1] \o sep \o JoinWith(Tail(ss), sep)

RECURSIVE json_dumps(_)
json_dumps(j) ==
    CASE j.t = "null" -> Lit_null
      [] j.t = "bool" -> (IF j.v THEN Lit_true ELSE Lit_false)
      [] j.t = "int" -> IntText(j.v)
      [] j.t = "str" -> EncodeString(j.v)
      [] j.t = "list" ->
           <<91>> \o JoinWith([i \in DOMAIN j.v |-> json_dumps(j.v[i])], <<44>>) \o <<93>>
      [] j.t = "dict" ->
           <<123>> \o JoinWith([i \in DOMAIN j.v |->
                                  EncodeString(j.v[i][1]) \o <<58>> \o json_dumps(j.v[i][2])],
                               <<44>>) \o <<125>>

\* ------------------------------------------------------------------------
\* bytes.decode / str.encode (errors = strict)
\* ------------------------------------------------------------------------

IsCont(b) == b >= 128 /\ b <= 191

\* b.decode("utf-8"): well-formed UTF-8 only (no overlong forms, no
\* surrogates, nothing above U+10FFFF)
RECURSIVE DecodeUtf8(_, _, _)
DecodeUtf8(b, i, acc) ==
    IF i > Len(b) THEN Some(acc)
    ELSE LET c == b[i]
             n == Len(b)
             c1 == IF i + 1 <= n THEN b[i + 1] ELSE -1
             c2 == IF i + 2 <= n THEN b[i + 2] ELSE -1
             c3 == IF i + 3 <= n THEN b[i + 3] ELSE -1
         IN IF c < 128 THEN DecodeUtf8(b, i + 1, Append(acc, c))
            ELSE IF c >= 194 /\ c <= 223 THEN
                IF IsCont(c1)
                THEN DecodeUtf8(b, i + 2, Append(acc, (c - 192) * 64 + (c1 - 128)))
                ELSE None
            ELSE IF c >= 224 /\ c <= 239 THEN
                IF /\ IsCont(c1) /\ IsCont(c2)
                   /\ (c = 224 => c1 >= 160)
                   /\ (c = 237 => c1 <= 159)
                THEN DecodeUtf8(b, i + 3,
                                Append(acc, (c - 224) * 4096 + (c1 - 128) * 64 + (c2 - 128)))
                ELSE None
            ELSE IF c >= 240 /\ c <= 244 THEN
                IF /\ IsCont(c1) /\ IsCont(c2) /\ IsCont(c3)
                   /\ (c = 240 => c1 >= 144)
                   /\ (c = 244 => c1 <= 143)
                THEN DecodeUtf8(b, i + 4,
                                Append(acc, (c - 240) * 262144 + (c1 - 128) * 4096
                                            + (c2 - 128) * 64 + (c3 - 128)))
                ELSE None
            ELSE None

decode_utf8(b) == DecodeUtf8(b, 1, <<>>)

\* one code point as UTF-8
Utf8Of(u) ==
    IF u < 128 THEN <<u>>
    ELSE IF u < 2048 THEN <<192 + (u \div 64), 128 + (u % 64)>>
    ELSE IF u < 65536 THEN <<224 + (u \div 4096), 128 + ((u \div 64) % 64), 128 + (u % 64)>>
    ELSE <<240 + (u \div 262144), 128 + ((u \div 4096) % 64),
           128 + ((u \div 64) % 64), 128 + (u % 64)>>

\* s.encode("utf-8"): a surrogate code point raises UnicodeEncodeError
encode_utf8(s) ==
    IF \E i \in DOMAIN s : IsSurrogate(s[i]) THEN None
    ELSE Some(Concat([i \in DOMAIN s |-> Utf8Of(s[i])]))

\* the 16-bit code units of b, least significant byte first (le) or last
Units16(b, le) ==
    [k \in 1..(Len(b) \div 2) |->
        IF le THEN b[2 * k - 1] + 256 * b[2 * k] ELSE b[2 * k - 1] * 256 + b[2 * k]]

RECURSIVE JoinSurrogates(_, _, _)
JoinSurrogates(u, i, acc) ==
    IF i > Len(u) THEN Some(acc)
    ELSE IF IsHighSurrogate(u[i]) THEN
        IF i + 1 <= Len(u) /\ IsLowSurrogate(u[i + 1])
        THEN JoinSurrogates(u, i + 2,
                            Append(acc, 65536 + (u[i] - 55296) * 1024 + (u[i + 1] - 56320)))
        ELSE None
    ELSE IF IsLowSurrogate(u[i]) THEN None
    ELSE JoinSurrogates(u, i + 1, Append(acc, u[i]))

\* b.decode("utf-16-le") / b.decode("utf-16-be"): a byte-order mark is kept
\* as U+FEFF; an odd length or an unpaired surrogate raises
decode_utf16(b, le) ==
    IF Len(b) % 2 # 0 THEN None ELSE JoinSurrogates(Units16(b, le), 1, <<>>)

\* a 32-bit unit from its bytes, least significant first; a unit whose top
\* byte is set is above U+10FFFF whatever the rest, and is read as 0x110000
Unit32(b0, b1, b2, b3) == IF b3 # 0 THEN 1114112 ELSE b0 + 256 * b1 + 65536 * b2

Units32(b, le) ==
    [k \in 1..(Len(b) \div 4) |->
        IF le
        THEN Unit32(b[4 * k - 3], b[4 * k - 2], b[4 * k - 1], b[4 * k])
        ELSE Unit32(b[4 * k], b[4 * k - 1], b[4 * k - 2], b[4 * k - 3])]

\* b.decode("utf-32-le") / b.decode("utf-32-be")
decode_utf32(b, le) ==
    LET u == Units32(b, le) IN
    IF Len(b) % 4 # 0 THEN None
    ELSE IF \E i \in DOMAIN u : u[i] > 1114111 \/ IsSurrogate(u[i]) THEN None
    ELSE Some(u)

\* b.decode("latin-1"): every byte is its own code point; never fails
decode_latin1(b) == Some(b)

\* ------------------------------------------------------------------------
\* nms_hg_decoder.py: JSON helpers
\* ------------------------------------------------------------------------

\* the second line of decode_json_text: obj is the outcome of json.loads
DumpUtf8(obj) == IF ~obj.ok THEN None ELSE encode_utf8(json_dumps(obj.v))

\* decode_json_text applied to the outcome of a bytes.decode: normalised
\* UTF-8 JSON bytes, or None for any exception on the way (the callers wrap
\* the call in try/except)
decode_json_text(text) ==
    IF ~text.ok THEN None ELSE DumpUtf8(json_loads(text.v))

BOM_UTF8 == <<239, 187, 191>>

BOM_UTF32LE == <<255, 254, 0, 0>>

BOM_UTF32BE == <<0, 0, 254, 255>>

BOM_UTF16LE == <<255, 254>>

BOM_UTF16BE == <<254, 255>>

\* one attempt of try_decode_variants: whether the code makes it, and the
\* outcome of its bytes.decode
Attempt(on, text) == [on |-> on, text |-> text]

\* the attempts of try_decode_variants in the order of the code
DecodeAttempts(b) ==
    << Attempt(StartsWith(b, BOM_UTF8), decode_utf8(b)),
       Attempt(StartsWith(b, BOM_UTF32LE), decode_utf32(b, TRUE)),
       Attempt(StartsWith(b, BOM_UTF32BE), decode_utf32(b, FALSE)),
       Attempt(StartsWith(b, BOM_UTF16LE), decode_utf16(b, TRUE)),
       Attempt(StartsWith(b, BOM_UTF16BE), decode_utf16(b, FALSE)),
       Attempt(TRUE, decode_utf8(b)),
       Attempt(Len(b) >= 2 /\ SubSeq(b, 1, 2) \in {<<123, 0>>, <<91, 0>>},
               decode_utf16(b, TRUE)),
       Attempt(Len(b) >= 2 /\ SubSeq(b, 1, 2) \in {<<0, 123>>, <<0, 91>>},
               decode_utf16(b, FALSE)),
       Attempt(Len(b) >= 4 /\ SubSeq(b, 1, 4) \in {<<123, 0, 0, 0>>, <<91, 0, 0, 0>>},
               decode_utf32(b, TRUE)),
       Attempt(Len(b) >= 4 /\ SubSeq(b, 1, 4) \in {<<0, 0, 0, 123>>, <<0, 0, 0, 91>>},
               decode_utf32(b, FALSE)),
       Attempt(TRUE, decode_latin1(b)) >>

\* "try: return ... except: pass": the outcome r when it is a value, else
\* what the code goes on to
OrElse(r, rest) == IF r.ok THEN r ELSE rest

\* the attempts from the k-th on: the first that is made and does not raise
RECURSIVE FirstDecoded(_, _)
FirstDecoded(att, k) ==
    IF k > Len(att) THEN None
    ELSE IF ~att[k].on THEN FirstDecoded(att, k + 1)
    ELSE OrElse(decode_json_text(att[k].text), FirstDecoded(att, k + 1))

\* try_decode_variants: normalised UTF-8 JSON bytes, or None if all fail
try_decode_variants(b) == FirstDecoded(DecodeAttempts(b), 1)

IsOpen(c) == c = 123 \/ c = 91

IsClose(c) == c = 125 \/ c = 93

\* the first position >= i holding '{' or '[', or Len(buf) + 1
RECURSIVE NextOpen(_, _)
NextOpen(buf, i) ==
    IF i <= Len(buf) /\ ~IsOpen(buf[i]) THEN NextOpen(buf, i + 1) ELSE i

\* SliceScan as it would be without the escape flag: inside a string every
\* quote ends the string, the one after a backslash too
RECURSIVE SliceScanNoEscape(_, _, _, _, _)
SliceScanNoEscape(buf, j, depth, in_str, esc) ==
    IF j > Len(buf) THEN 0
    ELSE IF in_str THEN SliceScanNoEscape(buf, j + 1, depth, buf[j] # 34, FALSE)
    ELSE IF buf[j] = 34 THEN SliceScanNoEscape(buf, j + 1, depth, TRUE, FALSE)
    ELSE IF IsOpen(buf[j]) THEN SliceScanNoEscape(buf, j + 1, depth + 1, FALSE, FALSE)
    ELSE IF IsClose(buf[j]) THEN
        IF depth - 1 = 0 THEN j
        ELSE SliceScanNoEscape(buf, j + 1, depth - 1, FALSE, FALSE)
    ELSE SliceScanNoEscape(buf, j + 1, depth, FALSE, FALSE)

\* the inner loop of slice_top_level_json from position j: the position of
\* the closing bracket that brings depth back to 0, or 0 when the buffer
\* ends first
RECURSIVE SliceScan(_, _, _, _, _)
SliceScan(buf, j, depth, in_str, esc) ==
    IF j > Len(buf) THEN 0
    ELSE LET ch == buf[j] IN
         IF in_str THEN
             IF esc THEN SliceScan(buf, j + 1, depth, TRUE, FALSE)
             ELSE IF ch = 92 THEN SliceScan(buf, j + 1, depth, TRUE, TRUE)
             ELSE IF ch = 34 THEN SliceScan(buf, j + 1, depth, FALSE, FALSE)
             ELSE SliceScan(buf, j + 1, depth, TRUE, FALSE)
         ELSE IF ch = 34 THEN SliceScan(buf, j + 1, depth, TRUE, esc)
         ELSE IF IsOpen(ch) THEN SliceScan(buf, j + 1, depth + 1, FALSE, esc)
         ELSE IF IsClose(ch) THEN
             IF depth - 1 = 0 THEN j
             ELSE SliceScan(buf, j + 1, depth - 1, FALSE, esc)
         ELSE SliceScan(buf, j + 1, depth, FALSE, esc)

\* the outer loop of slice_top_level_json: i is at an opening bracket or
\* past the end
RECURSIVE SliceFrom(_, _)
SliceFrom(buf, i) ==
    IF i > Len(buf) THEN None
    ELSE LET e == SliceScan(buf, i, 0, FALSE, FALSE) IN
         IF e # 0 THEN Some(<<i - 1, e>>)
         ELSE SliceFrom(buf, NextOpen(buf, i + 1))

\* slice_top_level_json(buf): Python's (start, end), so that the slice is
\* buf[start:end], or None
slice_top_level_json(buf) == SliceFrom(buf, NextOpen(buf, 1))

\* buf[start:end] for a Python (start, end) pair
PySlice(buf, se) == SubSeq(buf, se[1] + 1, se[2])

\* the slice of buf that bytes_to_json_bytes tries second, when sl is not None
SliceCandidate(buf, sl) ==
    [on |-> sl.ok, b |-> IF sl.ok THEN PySlice(buf, sl.v) ELSE <<>>]

\* the cut of buf at its last closing bracket (0: there is none) that
\* bytes_to_json_bytes tries third
CutCandidate(buf, last_brace) ==
    [on |-> last_brace # 0, b |-> SubSeq(buf, 1, last_brace)]

\* what bytes_to_json_bytes hands to try_decode_variants, in order
Candidates(buf) ==
    << [on |-> TRUE, b |-> buf],
       SliceCandidate(buf, slice_top_level_json(buf)),
       CutCandidate(buf, Max2(RFindByte(buf, 125), RFindByte(buf, 93))) >>

\* the candidates from the k-th on: the first that decodes
RECURSIVE FirstVariant(_, _)
FirstVariant(cand, k) ==
    IF k > Len(cand) THEN None
    ELSE IF ~cand[k].on THEN FirstVariant(cand, k + 1)
    ELSE OrElse(try_decode_variants(cand[k].b), FirstVariant(cand, k + 1))

\* bytes_to_json_bytes: None stands for the RuntimeError
bytes_to_json_bytes(b) == FirstVariant(Candidates(RStripNul(b)), 1)

\* ------------------------------------------------------------------------
\* lz4.block.decompress(chunk, uncompressed_size = cap)
\* ------------------------------------------------------------------------

\* a length of 15 in a token nibble is followed by bytes to add, up to and
\* including the first byte below 255: [ok, v = the length, i = next position]
RECURSIVE Lz4Length(_, _, _)
Lz4Length(src, ip, n) ==
    IF ip > Len(src) THEN PFail
    ELSE IF src[ip] = 255 THEN Lz4Length(src, ip + 1, n + 255)
    ELSE POk(n + src[ip], ip + 1)

\* out followed by n bytes copied from offset bytes back (the copy may
\* overlap what it writes)
RECURSIVE Lz4Copy(_, _, _)
Lz4Copy(out, offset, n) ==
    IF n = 0 THEN out ELSE Lz4Copy(Append(out, out[Len(out) - offset + 1]), offset, n - 1)

\* one sequence of an LZ4 block at src[ip]: literals, then a match unless the
\* literals end the input.  As LZ4_decompress_safe does: literals that reach
\* the last 8 bytes of the input or the last 12 bytes of the output buffer
\* must end the input; a match needs an offset inside the output so far and
\* must end 5 bytes before the end of the output buffer.
RECURSIVE Lz4Sequence(_, _, _, _)
Lz4Sequence(src, ip, out, cap) ==
    IF ip > Len(src) THEN None
    ELSE LET token == src[ip]
             ll == IF token \div 16 = 15 THEN Lz4Length(src, ip + 1, 15)
                   ELSE POk(token \div 16, ip + 1)
         IN IF ~ll.ok THEN None
            ELSE LET lend == ll.i + ll.v
                     out1 == out \o SubSeq(src, ll.i, Min2(lend - 1, Len(src)))
                 IN IF lend - 1 > Len(src) THEN None
                    ELSE IF Len(out) + ll.v > cap - 12 \/ lend - 1 > Len(src) - 8 THEN
                        IF lend - 1 = Len(src) /\ Len(out1) <= cap THEN Some(out1) ELSE None
                    ELSE LET offset == src[lend] + 256 * src[lend + 1]
                             ml == IF token % 16 = 15 THEN Lz4Length(src, lend + 2, 19)
                                   ELSE POk((token % 16) + 4, lend + 2)
                         IN IF offset = 0 \/ offset > Len(out1) \/ ~ml.ok THEN None
                            ELSE IF Len(out1) + ml.v > cap - 5 THEN None
                            ELSE Lz4Sequence(src, ml.i, Lz4Copy(out1, offset, ml.v), cap)

\* LZ4_decompress_safe with a zero-sized output buffer accepts only the
\* one-byte block <<0>>
lz4_block_decompress(chunk, cap) ==
    IF cap = 0 THEN (IF chunk = <<0>> THEN Some(<<>>) ELSE None)
    ELSE Lz4Sequence(chunk, 1, <<>>, cap)

\* ------------------------------------------------------------------------
\* nms_hg_decoder.py: container decoders
\* ------------------------------------------------------------------------

\* struct.pack("<I", MAGIC_BLOCK), MAGIC_BLOCK = 0xFEEDA1E5
magic_bytes == <<229, 161, 237, 254>>

\* 2^24: a size no buffer of the model reaches
SizeLimit == 16777216

\* struct "<I" at position i of b.  Sizes of 2^24 and more are all read as
\* 2^24: each of them is past the end of every buffer and above the size of
\* every output
LE32(b, i) ==
    IF b[i + 3] # 0 THEN SizeLimit ELSE b[i] + 256 * b[i + 1] + 65536 * b[i + 2]

\* the size of the header "<IIII"
HeaderSize == 16

\* the end of one turn of the loop of decode_hg_blocks_scan_all: dec is the
\* outcome of lz4.block.decompress on the block at idx, which ends before end
RECURSIVE HgScan(_, _, _, _)
HgBlockDone(b, idx, end, sizes, dec, out, found) ==
    IF ~dec.ok THEN HgScan(b, idx + 1, out, found)
    ELSE HgScan(b, end, out \o dec.v, Append(found, <<idx - 1, sizes[1], sizes[2]>>))

\* the while loop of decode_hg_blocks_scan_all from 1-based position pos:
\* the stitched output and the accepted blocks (0-based offset, comp_sz,
\* decomp_sz)
HgScan(b, pos, out, found) ==
    LET idx == FindFrom(b, magic_bytes, pos) IN
    IF idx = 0 \/ (idx - 1) + HeaderSize > Len(b) THEN [out |-> out, found |-> found]
    ELSE LET comp_sz == LE32(b, idx + 4)
             decomp_sz == LE32(b, idx + 8)
             start == idx + HeaderSize
             end == start + comp_sz
         IN IF comp_sz = 0 THEN HgScan(b, idx + 4, out, found)
            ELSE IF end - 1 > Len(b) THEN HgScan(b, idx + 4, out, found)
            ELSE HgBlockDone(b, idx, end, <<comp_sz, decomp_sz>>,
                             lz4_block_decompress(SubSeq(b, start, end - 1), decomp_sz),
                             out, found)

\* the stitched bytes, or None for the RuntimeError raised when no block
\* was accepted
Stitched(r) == IF r.found = <<>> THEN None ELSE Some(r.out)

decode_hg_blocks_scan_all(b) == Stitched(HgScan(b, 1, <<>>, <<>>))

MAGIC_LZ4F == <<4, 34, 77, 24>>

MAGIC_GZIP == <<31, 139>>

\* decode_lz4_frame: None without the frame magic, else what
\* lz4.frame.decompress makes of the buffer
decode_lz4_frame(b, lz4f_decompress) ==
    IF ~StartsWith(b, MAGIC_LZ4F) THEN None ELSE lz4f_decompress

\* ------------------------------------------------------------------------
\* Inputs of the decoder
\* ------------------------------------------------------------------------

\* the most blocks a framed input is split into
MaxBlocks == 2

\* the most NUL bytes appended to a plain input
MaxPad == 1

\* Well-formed JSON texts, as UTF-8
\* {"a":1}
JsonText1 == <<123, 34, 97, 34, 58, 49, 125>>

\* [1,{"b":"}"}]
JsonText2 == <<91, 49, 44, 123, 34, 98, 34, 58, 34, 125, 34, 125, 93>>

\* {"a": [10, "x"]}
JsonText3 == <<123, 34, 97, 34, 58, 32, 91, 49, 48, 44, 32, 34, 120, 34, 93, 125>>

\* "x{"
JsonText4 == <<34, 120, 123, 34>>

\* 7
JsonText5 == <<55>>

\* ["\"\\"]
JsonText6 == <<91, 34, 92, 34, 92, 92, 34, 93>>

\* ["e"] with an acute accent: the two bytes C3 A9
JsonText7 == <<91, 34, 195, 169, 34, 93>>

\* ["\ud800"]
JsonText8 == <<91, 34, 92, 117, 100, 56, 48, 48, 34, 93>>

\* {"a":1,"a":2}
JsonText9 == <<123, 34, 97, 34, 58, 49, 44, 34, 97, 34, 58, 50, 125>>

\* [true,null]
JsonText10 == <<91, 116, 114, 117, 101, 44, 110, 117, 108, 108, 93>>

JsonTexts ==
    {JsonText1, JsonText2, JsonText3, JsonText4, JsonText5, JsonText6, JsonText7,
     JsonText8, JsonText9, JsonText10}

\* struct.pack("<I", n)
PackLE32(n) == <<n % 256, (n \div 256) % 256, (n \div 65536) % 256, (n \div 16777216) % 256>>

\* the extra length bytes of an LZ4 token nibble of 15
RECURSIVE Lz4LengthBytes(_)
Lz4LengthBytes(n) == IF n >= 255 THEN <<255>> \o Lz4LengthBytes(n - 255) ELSE <<n>>

\* an LZ4 block holding chunk as one run of literals (what the compressor
\* emits for input it finds no match in)
Lz4Literals(chunk) ==
    IF Len(chunk) < 15 THEN <<Len(chunk) * 16>> \o chunk
    ELSE <<240>> \o Lz4LengthBytes(Len(chunk) - 15) \o chunk

\* one block of the save format: [magic][comp_sz][decomp_sz][pad = 0][comp_bytes]
HgBlock(chunk) ==
    LET comp == Lz4Literals(chunk) IN
    magic_bytes \o PackLE32(Len(comp)) \o PackLE32(Len(chunk)) \o PackLE32(0) \o comp

\* text cut into chunks after the positions of cuts (an increasing sequence)
RECURSIVE SplitAt(_, _, _)
SplitAt(text, cuts, from) ==
    IF cuts = <<>> THEN <<SubSeq(text, from, Len(text))>>
    ELSE <<SubSeq(text, from, cuts[1])>> \o SplitAt(text, Tail(cuts), cuts[1] + 1)

\* the blocks of chunks, with gap between consecutive blocks
RECURSIVE FrameBlocks(_, _)
FrameBlocks(chunks, gap) ==
    IF Len(chunks) = 1 THEN HgBlock(chunks[1])
    ELSE HgBlock(chunks[1]) \o gap \o FrameBlocks(Tail(chunks), gap)

\* increasing sequences of at most n cut positions inside text
RECURSIVE CutsOf(_, _, _)
CutsOf(len, from, n) ==
    IF n = 0 THEN {<<>>}
    ELSE {<<>>} \cup UNION {{<<c>> \o rest : rest \in CutsOf(len, c + 1, n - 1)} :
                            c \in from..(len - 1)}

\* bytes between blocks: none, padding, a bracket and a quote, the first
\* three bytes of the magic
Gaps == {<<>>, <<0, 0>>, <<123, 34>>, <<229, 161, 237>>}

\* what gzip.decompress, lz4.frame.decompress or zlib.decompress may hand
\* back for a container: JSON, JSON with padding and a stale tail, no JSON
Payloads == {JsonText1, JsonText2 \o <<0, 0>>, <<0>> \o JsonText3 \o <<125, 0>>, <<120, 121>>}

\* the first two bytes of a zlib stream (CMF = 0x78, FLG = 0x9C)
ZlibHeader == <<120, 156>>

\* an opaque compressed body
Body == <<1, 2, 3>>

RECURSIVE Nuls(_)
Nuls(n) == IF n = 0 THEN <<>> ELSE <<0>> \o Nuls(n - 1)

\* ------------------------------------------------------------------------
\* State
\* ------------------------------------------------------------------------

VARIABLES
    raw,      \* decode_to_json_bytes: the bytes read from the file
    gz,       \* what gzip.decompress(raw) gives: Some(bytes), or None
    lzf,      \* what lz4.frame.decompress(raw) gives
    zl,       \* what zlib.decompress(raw) gives
    dpc,      \* the step decode_to_json_bytes is at, "returned" or "raised"
    tried,    \* the steps made so far, in order
    ret,      \* the bytes returned
    src       \* how raw was made: [kind, text]

decodeVars == <<raw, gz, lzf, zl, dpc, tried, ret, src>>

VARIABLES
    sbuf,     \* slice_top_level_json: the buffer
    sparts,   \* how sbuf was made: [P, J, T], sbuf = P \o J \o T
    sres,     \* the (start, end) returned, or None
    spc       \* "call" before the call, "done" after it

sliceVars == <<sbuf, sparts, sres, spc>>

VARIABLES
    prev_inv,     \* the ledger: the totals of the earlier snapshot, resource -> amount
    cur_inv,      \* the totals of the later snapshot
    delta,        \* what diff_inventories(prev_inv, cur_inv) returned
    ledger_rows,  \* the rows appended to the ledger for this pair of snapshots
    lpc           \* "diff" before the call, "rows" after it, "done" after the loop

diffVars == <<prev_inv, cur_inv, delta, ledger_rows, lpc>>

VARIABLES
    recs,             \* db_import_initial: the records walk_items yields, in order
    rpos,             \* the 1-based position of the next record to consume
    pass,             \* 1 while recs are consumed once, 2 while they are consumed again
    per_key_counter,  \* (owner, inv, cont) -> the next fallback slot index
    seen,             \* (owner, inv, cont, slot_index, rid) -> [amt, itype]
    seen_once,        \* seen as it was when the first pass over recs ended
    consumed          \* the (key, amount) pairs the loop has handled, in order

dedupVars == <<recs, rpos, pass, per_key_counter, seen, seen_once, consumed>>

VARIABLES
    wprog,    \* "extract" (nms_extract_inventory.main) or "fingerprint" (compute_rows)
    wdoc,     \* the decoded save
    wstack,   \* the stack of walk(): entries [path, val], the top is the last
    totals,   \* extract: rid -> total; fingerprint: (owner, rid) -> total
    counted,  \* the slots that added to totals: [path, rid, amount, cap, amt]
    wout,     \* what is written after the loop: the totals and slot rows, or the rows
    wsrc,     \* how wdoc was made: [layout, slot]
    wpc       \* "walk" while the loop runs, then "done", or "crashed"

walkVars == <<wprog, wdoc, wstack, totals, counted, wout, wsrc, wpc>>

VARIABLES
    idoc,     \* db_import_initial: the parsed JSON of one save
    yielded,  \* what walk_items(idoc) yields, in order
    rows,     \* the nms_items rows emitted for it
    ipc       \* "walk", "emit" or "done"

itemVars == <<idoc, yielded, rows, ipc>>

VARIABLES
    sdoc,       \* the sections pipeline: the document
    shape,      \* how sdoc was made: where the parent sits and the lengths of its arrays
    index,      \* what find_sections returned
    rollup,     \* what compute_inventory_rollup returned
    containers, \* the parents its loop counted: [parent, children, total]
    spc2        \* "index", "rollup" or "done"

rollupVars == <<sdoc, shape, index, rollup, containers, spc2>>

VARIABLES
    manifest,  \* db_import_initial main: the entries of the manifest
    stream,    \* the SQL statements the run printed, in order
    run,       \* 1 for the first run over the manifest, 2 for the second
    apos,      \* how many statements of stream the store has executed
    nms_snapshots,  \* the store: the table, unique key -> row
    nms_items,      \* the store: the table, unique key -> row
    sid,       \* the session variable @sid
    last_id,   \* what LAST_INSERT_ID() returns
    next_id,   \* the AUTO_INCREMENT counter of nms_snapshots
    durable,   \* the tables as of the last COMMIT
    once,      \* the tables when the stream of the first run was applied
    uk_rid,    \* whether the unique key of nms_items includes resource_id
    mpc        \* "emit", "apply", "done" or "failed"

storeVars ==
    <<manifest, stream, run, apos, nms_snapshots, nms_items, sid, last_id, next_id, durable,
      once, uk_rid, mpc>>

VARIABLES
    srows,     \* coalesce_sessions: the rows handed in
    max_gap,   \* its threshold
    sessions,  \* what ledger_core.coalesce_sessions returned
    kept,      \* what the coalesce_sessions of nms_resource_ledger_v3 returned
    cpc        \* "call" or "done"

sessVars == <<srows, max_gap, sessions, kept, cpc>>

VARIABLES
    tsfile,     \* canonical_ts_from_file: the snapshot file
    use_mtime,  \* its flag
    ts_ledger,  \* what pipeline/ledger/ts_utils.py returned
    ts_v3,      \* what nms_resource_ledger_v3.py returned
    tpc         \* "call" or "done"

tsVars == <<tsfile, use_mtime, ts_ledger, ts_v3, tpc>>

VARIABLES
    mdoc,          \* nms_fullparse main: the document
    sections_map,  \* the sections map: None when there is no such file
    heuristic,     \* what find_sections returned
    final,         \* the index main goes on with
    gpc            \* "index", "merge" or "done"

mergeVars == <<mdoc, sections_map, heuristic, final, gpc>>

VARIABLES
    fdocs,    \* inventory_fingerprint: how the two documents were made
    frows,    \* what compute_rows returned for each of them so far
    fprints,  \* what fingerprint_rows is given for each of them so far
    fpc       \* "first", "second" or "done"

fpVars == <<fdocs, frows, fprints, fpc>>

VARIABLES
    hb,       \* decode_hg_blocks_scan_all: the bytes b
    hpos,     \* pos, as a 1-based position
    hout,     \* out
    hfound,   \* found: (offset, comp_sz, decomp_sz) of the accepted blocks
    hturns,   \* the turns of the loop so far: [idx, kind, pos]
    hret,     \* what the function returned, None when it raised
    hpc       \* "scan", "returned" or "raised"

scanVars == <<hb, hpos, hout, hfound, hturns, hret, hpc>>

VARIABLES
    kbuf,     \* slice_top_level_json, one iteration at a time: buf
    ki,       \* i, as a 1-based position
    kj,       \* j, as a 1-based position
    kstart,   \* start, as a 1-based position; 0 before the first
    kdepth,   \* depth
    kin_str,  \* in_str
    kesc,     \* esc
    kres,     \* what was returned: Some(<<start, end>>) or None
    kpc       \* "skip", "outer", "inner", "restart" or "done"

loopVars == <<kbuf, ki, kj, kstart, kdepth, kin_str, kesc, kres, kpc>>

VARIABLES
    nhint,    \* run_nmssavetool: whether decoder_hint is given
    nnext,    \* the 1-based position in attempts of the form to run next
    nfile,    \* the file out_json: Some(bytes), or None when it does not exist
    nlast,    \* what the form run last did: [rc, stdout, stderr, wrote], or None
    nerrors,  \* errors
    npc       \* "idle", "run", "returned" or "fatal"

toolVars == <<nhint, nnext, nfile, nlast, nerrors, npc>>

VARIABLES
    ppath,    \* utils/paths.py: a path, a sequence of keys and indices
    ptext,    \* what path_to_string(ppath) returned
    pback,    \* what parse_path_string(ptext) returned: Some(path), None when it raised
    ppc       \* "idle", "print", "parse" or "done"

pathVars == <<ppath, ptext, pback, ppc>>

VARIABLES
    opath,    \* owner inference: the path of a slot
    oext,     \* the owner nms_extract_inventory infers for it
    ofp,      \* the owner inventory_fingerprint._infer_owner infers for it
    opc       \* "idle", "extract", "fingerprint" or "done"

ownerVars == <<opath, oext, ofp, opc>>

VARIABLES
    bn,       \* build_manifest: how many invocations there are
    bpc,      \* where each is: "start", "opened", "written", "done", "failed" or "off"
    bfd,      \* the inode each has open for writing, 0 for none
    btmp,     \* the inode the name MANIFEST_TMP leads to, 0 when there is no such file
    bfinal,   \* the inode the name MANIFEST_FINAL leads to, 0 when there is no such file
    binodes,  \* the contents of the inodes
    bseen     \* what the reader read last: [state, v]

buildVars == <<bn, bpc, bfd, btmp, bfinal, binodes, bseen>>

VARIABLES
    qinput,    \* run_ledger: the snapshots as they were loaded, in the order of their paths
    qminutes,  \* args.session_minutes
    qsnaps,    \* snapshots
    qi,        \* the i of the loop over the pairs
    qrows,     \* ledger_rows
    qtotals,   \* totals
    qout,      \* the rows written to the totals file
    qpc        \* "loaded", "sorted", "pairs", "done" or "exit"

ledgerVars == <<qinput, qminutes, qsnaps, qi, qrows, qtotals, qout, qpc>>

VARIABLES
    ajs,       \* initial import of the ledger package: the full-parse document
    atech,     \* include_tech
    atotals,   \* what aggregate_inventory returned
    arows,     \* what _collect_initial_rows returned, None when it raised
    awritten,  \* the rows initial_import_to_db inserted
    apc        \* "aggregate", "collect", "write", "done" or "raised"

aggVars == <<ajs, atech, atotals, arows, awritten, apc>>

earlierVars == <<decodeVars, sliceVars, diffVars, dedupVars, walkVars, itemVars, rollupVars>>

vars == <<earlierVars, storeVars, sessVars, tsVars, mergeVars, fpVars, scanVars, loopVars, toolVars, pathVars, ownerVars, buildVars, ledgerVars, aggVars>>

\* what a step of the decoder leaves alone
DecodeOnly == UNCHANGED <<sliceVars, diffVars, dedupVars, walkVars, itemVars, rollupVars, storeVars, sessVars, tsVars, mergeVars, fpVars, scanVars, loopVars, toolVars, pathVars, ownerVars, buildVars, ledgerVars, aggVars>>

\* what a call of the slicer leaves alone
SliceOnly == UNCHANGED <<decodeVars, diffVars, dedupVars, walkVars, itemVars, rollupVars, storeVars, sessVars, tsVars, mergeVars, fpVars, scanVars, loopVars, toolVars, pathVars, ownerVars, buildVars, ledgerVars, aggVars>>

\* what a step of the ledger leaves alone
DiffOnly == UNCHANGED <<decodeVars, sliceVars, dedupVars, walkVars, itemVars, rollupVars, storeVars, sessVars, tsVars, mergeVars, fpVars, scanVars, loopVars, toolVars, pathVars, ownerVars, buildVars, ledgerVars, aggVars>>

\* what a step of the dedup stage leaves alone
DedupOnly == UNCHANGED <<decodeVars, sliceVars, diffVars, walkVars, itemVars, rollupVars, storeVars, sessVars, tsVars, mergeVars, fpVars, scanVars, loopVars, toolVars, pathVars, ownerVars, buildVars, ledgerVars, aggVars>>

\* what a step of the slot walk leaves alone
WalkOnly == UNCHANGED <<decodeVars, sliceVars, diffVars, dedupVars, itemVars, rollupVars, storeVars, sessVars, tsVars, mergeVars, fpVars, scanVars, loopVars, toolVars, pathVars, ownerVars, buildVars, ledgerVars, aggVars>>

\* what a step of the import leaves alone
ItemsOnly == UNCHANGED <<decodeVars, sliceVars, diffVars, dedupVars, walkVars, rollupVars, storeVars, sessVars, tsVars, mergeVars, fpVars, scanVars, loopVars, toolVars, pathVars, ownerVars, buildVars, ledgerVars, aggVars>>

\* what a step of the sections pipeline leaves alone
RollupOnly == UNCHANGED <<decodeVars, sliceVars, diffVars, dedupVars, walkVars, itemVars, storeVars, sessVars, tsVars, mergeVars, fpVars, scanVars, loopVars, toolVars, pathVars, ownerVars, buildVars, ledgerVars, aggVars>>

\* what a step of the import and of the store leaves alone
StoreOnly == UNCHANGED <<earlierVars, sessVars, tsVars, mergeVars, fpVars, scanVars, loopVars, toolVars, pathVars, ownerVars, buildVars, ledgerVars, aggVars>>

\* what a call of coalesce_sessions leaves alone
SessOnly == UNCHANGED <<earlierVars, storeVars, tsVars, mergeVars, fpVars, scanVars, loopVars, toolVars, pathVars, ownerVars, buildVars, ledgerVars, aggVars>>

\* what a call of canonical_ts_from_file leaves alone
TsOnly == UNCHANGED <<earlierVars, storeVars, sessVars, mergeVars, fpVars, scanVars, loopVars, toolVars, pathVars, ownerVars, buildVars, ledgerVars, aggVars>>

\* what a step of nms_fullparse leaves alone
MergeOnly == UNCHANGED <<earlierVars, storeVars, sessVars, tsVars, fpVars, scanVars, loopVars, toolVars, pathVars, ownerVars, buildVars, ledgerVars, aggVars>>

\* what a call of compute_rows leaves alone
FpOnly == UNCHANGED <<earlierVars, storeVars, sessVars, tsVars, mergeVars, scanVars, loopVars, toolVars, pathVars, ownerVars, buildVars, ledgerVars, aggVars>>

\* what a turn of the block scan leaves alone
ScanOnly == UNCHANGED <<earlierVars, storeVars, sessVars, tsVars, mergeVars, fpVars, loopVars, toolVars, pathVars, ownerVars, buildVars, ledgerVars, aggVars>>

\* what an iteration of the slicer's loops leaves alone
LoopOnly == UNCHANGED <<earlierVars, storeVars, sessVars, tsVars, mergeVars, fpVars, scanVars, toolVars, pathVars, ownerVars, buildVars, ledgerVars, aggVars>>

ToolOnly == UNCHANGED <<earlierVars, storeVars, sessVars, tsVars, mergeVars, fpVars, scanVars, loopVars, pathVars, ownerVars, buildVars, ledgerVars, aggVars>>

PathOnly == UNCHANGED <<earlierVars, storeVars, sessVars, tsVars, mergeVars, fpVars, scanVars, loopVars, toolVars, ownerVars, buildVars, ledgerVars, aggVars>>

OwnerOnly == UNCHANGED <<earlierVars, storeVars, sessVars, tsVars, mergeVars, fpVars, scanVars, loopVars, toolVars, pathVars, buildVars, ledgerVars, aggVars>>

BuildOnly == UNCHANGED <<earlierVars, storeVars, sessVars, tsVars, mergeVars, fpVars, scanVars, loopVars, toolVars, pathVars, ownerVars, ledgerVars, aggVars>>

LedgerOnly == UNCHANGED <<earlierVars, storeVars, sessVars, tsVars, mergeVars, fpVars, scanVars, loopVars, toolVars, pathVars, ownerVars, buildVars, aggVars>>

AggOnly == UNCHANGED <<earlierVars, storeVars, sessVars, tsVars, mergeVars, fpVars, scanVars, loopVars, toolVars, pathVars, ownerVars, buildVars, ledgerVars>>

\* the state of each part while another part runs
DiffIdle ==
    /\ prev_inv = <<>> /\ cur_inv = <<>> /\ delta = <<>>
    /\ ledger_rows = {} /\ lpc = "idle"

DedupIdle ==
    /\ recs = <<>> /\ rpos = 0 /\ pass = 0
    /\ per_key_counter = <<>> /\ seen = <<>> /\ seen_once = <<>>
    /\ consumed = <<>>

WalkIdle ==
    /\ wprog = "idle" /\ wdoc = JNull /\ wstack = <<>>
    /\ totals = <<>> /\ counted = <<>> /\ wout = <<>> /\ wsrc = <<>> /\ wpc = "idle"

ItemsIdle ==
    /\ idoc = JNull /\ yielded = <<>> /\ rows = {} /\ ipc = "idle"

RollupIdle ==
    /\ sdoc = JNull /\ shape = <<>> /\ index = <<>>
    /\ rollup = <<>> /\ containers = <<>> /\ spc2 = "idle"

StoreIdle ==
    /\ manifest = <<>> /\ stream = <<>> /\ run = 0 /\ apos = 0
    /\ nms_snapshots = <<>> /\ nms_items = <<>> /\ sid = 0 /\ last_id = 0 /\ next_id = 0
    /\ durable = <<>> /\ once = <<>> /\ uk_rid = FALSE /\ mpc = "idle"

SessIdle ==
    /\ srows = <<>> /\ max_gap = 0 /\ sessions = <<>> /\ kept = <<>> /\ cpc = "idle"

TsIdle ==
    /\ tsfile = <<>> /\ use_mtime = FALSE /\ ts_ledger = <<>> /\ ts_v3 = <<>>
    /\ tpc = "idle"

MergeIdle ==
    /\ mdoc = JNull /\ sections_map = <<>> /\ heuristic = <<>> /\ final = <<>>
    /\ gpc = "idle"

FpIdle == fdocs = <<>> /\ frows = <<>> /\ fprints = <<>> /\ fpc = "idle"

ScanIdle ==
    /\ hb = <<>> /\ hpos = 0 /\ hout = <<>> /\ hfound = <<>> /\ hturns = <<>>
    /\ hret = None /\ hpc = "idle"

LoopIdle ==
    /\ kbuf = <<>> /\ ki = 0 /\ kj = 0 /\ kstart = 0 /\ kdepth = 0
    /\ kin_str = FALSE /\ kesc = FALSE /\ kres = None /\ kpc = "idle"

ToolIdle ==
    /\ nhint = FALSE /\ nnext = 0 /\ nfile = None /\ nlast = None
    /\ nerrors = <<>> /\ npc = "idle"

PathIdle == ppath = <<>> /\ ptext = <<>> /\ pback = None /\ ppc = "idle"

OwnerIdle == opath = <<>> /\ oext = <<>> /\ ofp = <<>> /\ opc = "idle"

BuildIdle ==
    /\ bn = 0 /\ bpc = <<>> /\ bfd = <<>> /\ btmp = 0 /\ bfinal = 0 /\ binodes = <<>>
    /\ bseen = [state |-> "idle", v |-> <<>>]

LedgerIdle ==
    /\ qinput = <<>> /\ qminutes = 0 /\ qsnaps = <<>> /\ qi = 0 /\ qrows = <<>>
    /\ qtotals = <<>> /\ qout = <<>> /\ qpc = "idle"

AggIdle ==
    /\ ajs = JNull /\ atech = FALSE /\ atotals = <<>> /\ arows = None /\ awritten = {}
    /\ apc = "idle"

\* ------------------------------------------------------------------------
\* decode_to_json_bytes, step by step
\* ------------------------------------------------------------------------

Finish(stage, out) ==
    /\ tried' = Append(tried, stage)
    /\ ret' = out
    /\ dpc' = IF out.ok THEN "returned" ELSE "raised"
    /\ UNCHANGED <<raw, gz, lzf, zl, src>>

Advance(stage, next) ==
    /\ tried' = Append(tried, stage)
    /\ dpc' = next
    /\ UNCHANGED <<raw, gz, lzf, zl, ret, src>>

\* ReturnOrGoOn as it would be if a successful step did not return
GoOnRegardless(stage, out, next) == Advance(stage, next)

\* what the code does with the outcome of a step that returns on success and
\* goes on to the next step otherwise
ReturnOrGoOn(stage, out, next) ==
    IF out.ok THEN Finish(stage, out) ELSE Advance(stage, next)

\* what the code does with the outcome of a decompressor: its JSON is
\* returned, and a failure to find JSON in it is raised to the caller
ReturnOrRaise(stage, unwrapped, next) ==
    IF unwrapped.ok THEN Finish(stage, bytes_to_json_bytes(unwrapped.v))
    ELSE Advance(stage, next)

\* the HG step: the whole of it is inside try/except, so a failure to find
\* JSON in the stitched blocks goes on to gzip like a failure to find blocks
JsonOf(dec) == IF dec.ok THEN bytes_to_json_bytes(dec.v) ELSE None

HgResult(b) == JsonOf(decode_hg_blocks_scan_all(b))

\* 0) plain JSON
TryPlain ==
    /\ dpc = "plain"
    /\ ReturnOrGoOn("plain", try_decode_variants(raw), "hg")
    /\ DecodeOnly

\* 1) HG blocks
TryHgBlocks ==
    /\ dpc = "hg"
    /\ ReturnOrGoOn("hg", HgResult(raw), "gzip")
    /\ DecodeOnly

\* 2) gzip
TryGzip ==
    /\ dpc = "gzip"
    /\ ReturnOrRaise("gzip", gz, "lz4f")
    /\ DecodeOnly

\* 3) lz4-frame
TryLz4Frame ==
    /\ dpc = "lz4f"
    /\ ReturnOrRaise("lz4f", decode_lz4_frame(raw, lzf), "zlib")
    /\ DecodeOnly

\* 4) zlib
TryZlib ==
    /\ dpc = "zlib"
    /\ ReturnOrRaise("zlib", zl, "last")
    /\ DecodeOnly

\* 5) last chance: the plain decode of the input without its trailing NULs
TryLastChance ==
    /\ dpc = "last"
    /\ Finish("last", try_decode_variants(RStripNul(raw)))
    /\ DecodeOnly

DecodeStart(b, g, l, z, how) ==
    /\ raw = b
    /\ gz = g
    /\ lzf = l
    /\ zl = z
    /\ src = how
    /\ dpc = "plain"
    /\ tried = <<>>
    /\ ret = None

\* a JSON text in one or more blocks
InitFramed ==
    \E text \in JsonTexts, gap \in Gaps :
        \E cuts \in CutsOf(Len(text), 1, MaxBlocks - 1) :
            DecodeStart(FrameBlocks(SplitAt(text, cuts, 1), gap), None, None, None,
                        [kind |-> "framed", text |-> text])

\* a JSON text as it is, with or without NUL padding; bytes that are no JSON
\* (gzip.decompress(b"") is b"": no member, no error)
InitPlain ==
    \E text \in JsonTexts \cup {<<>>, <<120, 121>>, magic_bytes}, pad \in 0..MaxPad :
        DecodeStart(text \o Nuls(pad),
                    IF text \o Nuls(pad) = <<>> THEN Some(<<>>) ELSE None, None, None,
                    [kind |-> "plain", text |-> text])

\* ------------------------------------------------------------------------
\* plain JSON files in the encodings of try_decode_variants
\* ------------------------------------------------------------------------

\* one code point as UTF-16 code units
Utf16Of(u) ==
    IF u < 65536 THEN <<u>>
    ELSE <<55296 + ((u - 65536) \div 1024), 56320 + ((u - 65536) % 1024)>>

\* s.encode("utf-16-le") / s.encode("utf-16-be"): no byte-order mark
encode_utf16(s, le) ==
    Concat([i \in DOMAIN Concat([k \in DOMAIN s |-> Utf16Of(s[k])]) |->
               IF le
               THEN <<Concat([k \in DOMAIN s |-> Utf16Of(s[k])])[i] % 256,
                      Concat([k \in DOMAIN s |-> Utf16Of(s[k])])[i] \div 256>>
               ELSE <<Concat([k \in DOMAIN s |-> Utf16Of(s[k])])[i] \div 256,
                      Concat([k \in DOMAIN s |-> Utf16Of(s[k])])[i] % 256>>])

\* s.encode("utf-32-le") / s.encode("utf-32-be"): no byte-order mark
encode_utf32(s, le) ==
    Concat([i \in DOMAIN s |->
               IF le THEN <<s[i] % 256, (s[i] \div 256) % 256, s[i] \div 65536, 0>>
               ELSE <<0, s[i] \div 65536, (s[i] \div 256) % 256, s[i] % 256>>])

Encodings == {"utf-8", "utf-16-le", "utf-16-be", "utf-32-le", "utf-32-be"}

\* codecs.BOM_UTF8, BOM_UTF16_LE, ...
BomOf(enc) ==
    CASE enc = "utf-8" -> BOM_UTF8
      [] enc = "utf-16-le" -> BOM_UTF16LE
      [] enc = "utf-16-be" -> BOM_UTF16BE
      [] enc = "utf-32-le" -> BOM_UTF32LE
      [] enc = "utf-32-be" -> BOM_UTF32BE

\* the file of a text (given as UTF-8) in an encoding
EncodedAs(text, enc) ==
    CASE enc = "utf-8" -> text
      [] enc = "utf-16-le" -> encode_utf16(decode_utf8(text).v, TRUE)
      [] enc = "utf-16-be" -> encode_utf16(decode_utf8(text).v, FALSE)
      [] enc = "utf-32-le" -> encode_utf32(decode_utf8(text).v, TRUE)
      [] enc = "utf-32-be" -> encode_utf32(decode_utf8(text).v, FALSE)

\* the texts of at most 13 characters: UTF-32 takes four bytes for each
EncodedTexts == {t \in JsonTexts : Len(t) <= 13}

\* a JSON text in one of the encodings, with a byte-order mark, or without
\* one when it is UTF-8 or starts with '{' or '['; no decompressor accepts
\* such a file
InitEncoded ==
    \E text \in EncodedTexts, enc \in Encodings, bom \in BOOLEAN :
        /\ bom \/ enc = "utf-8" \/ text[1] \in {123, 91}
        /\ DecodeStart((IF bom THEN BomOf(enc) ELSE <<>>) \o EncodedAs(text, enc),
                       None, None, None,
                       [kind |-> "encoded", text |-> text, enc |-> enc, bom |-> bom])

\* a gzip, lz4-frame or zlib container, alone or followed by an HG block;
\* the decompressor fails on it or gives one of Payloads
InitContainer ==
    \E kind \in {"gzip", "lz4f", "zlib"}, out \in {None} \cup {Some(p) : p \in Payloads},
       tail \in {<<>>, HgBlock(JsonText5), HgBlock(<<120, 121>>)} :
        LET magic == CASE kind = "gzip" -> MAGIC_GZIP
                       [] kind = "lz4f" -> MAGIC_LZ4F
                       [] kind = "zlib" -> ZlibHeader
        IN DecodeStart(magic \o Body \o tail,
                       IF kind = "gzip" THEN out ELSE None,
                       IF kind = "lz4f" THEN out ELSE None,
                       IF kind = "zlib" THEN out ELSE None,
                       [kind |-> kind, text |-> IF out.ok THEN out.v ELSE <<>>])

DecodeInit == InitFramed \/ InitPlain \/ InitContainer

DecodeNext ==
    \/ TryPlain
    \/ TryHgBlocks
    \/ TryGzip
    \/ TryLz4Frame
    \/ TryZlib
    \/ TryLastChance

DecodeIdle ==
    /\ raw = <<>> /\ gz = None /\ lzf = None /\ zl = None
    /\ dpc = "idle" /\ tried = <<>> /\ ret = None
    /\ src = [kind |-> "idle", text |-> <<>>]

\* ------------------------------------------------------------------------
\* slice_top_level_json on a buffer P + J + T
\* ------------------------------------------------------------------------

\* the longest tail T
MaxTail == 2

\* JSON objects and arrays whose strings hold brackets, quotes, backslashes
\* {"a":"} {"}
SliceText1 == <<123, 34, 97, 34, 58, 34, 125, 32, 123, 34, 125>>

\* [1,{"b":"}"}]
SliceText2 == <<91, 49, 44, 123, 34, 98, 34, 58, 34, 125, 34, 125, 93>>

\* {"a":"\""}
SliceText3 == <<123, 34, 97, 34, 58, 34, 92, 34, 34, 125>>

\* {"a":"\\"}
SliceText4 == <<123, 34, 97, 34, 58, 34, 92, 92, 34, 125>>

\* ["[","]"]
SliceText5 == <<91, 34, 91, 34, 44, 34, 93, 34, 93>>

\* {"a":"value with } and { chars", "b":[1,2,{"c":3}]}
SliceText6 == <<123, 34, 97, 34, 58, 34, 118, 97, 108, 117, 101, 32, 119, 105, 116, 104, 32, 125, 32, 97, 110, 100, 32, 123, 32, 99, 104, 97, 114, 115, 34, 44, 32, 34, 98, 34, 58, 91, 49, 44, 50, 44, 123, 34, 99, 34, 58, 51, 125, 93, 125>>

\* []
SliceText7 == <<91, 93>>

\* {"\\\"":[{}]}
SliceText8 == <<123, 34, 92, 92, 92, 34, 34, 58, 91, 123, 125, 93, 125>>

SliceTexts ==
    {SliceText1, SliceText2, SliceText3, SliceText4, SliceText5, SliceText6,
     SliceText7, SliceText8}

\* prefixes without '{' and '[': nothing, padding, a quote, closing
\* brackets, a backslash and a quote
SlicePrefixes == {<<>>, <<0, 0>>, <<34>>, <<125, 93>>, <<92, 34>>}

\* the bytes tails are made of: NUL, quote, backslash, brackets
TailBytes == {0, 34, 92, 123, 125, 91, 93}

RECURSIVE SeqsUpTo(_, _)
SeqsUpTo(S, n) ==
    IF n = 0 THEN {<<>>}
    ELSE LET shorter == SeqsUpTo(S, n - 1) IN
         shorter \cup {Append(t, x) : t \in {u \in shorter : Len(u) = n - 1}, x \in S}

SliceInit ==
    \E P \in SlicePrefixes, J \in SliceTexts, T \in SeqsUpTo(TailBytes, MaxTail) :
        /\ sbuf = P \o J \o T
        /\ sparts = [P |-> P, J |-> J, T |-> T]
        /\ sres = None
        /\ spc = "call"

SliceCall ==
    /\ spc = "call"
    /\ sres' = slice_top_level_json(sbuf)
    /\ spc' = "done"
    /\ UNCHANGED <<sbuf, sparts>>
    /\ SliceOnly

SliceIdle ==
    /\ sbuf = <<>> /\ sparts = [P |-> <<>>, J |-> <<>>, T |-> <<>>]
    /\ sres = None /\ spc = "idle"

\* ------------------------------------------------------------------------
\* The ledger: diff_inventories and the rows made of its result
\* ------------------------------------------------------------------------

\* the most resources a snapshot holds
MaxKeys == 2

\* the largest total of a resource
MaxAmount == 2

\* d.get(k, default) on a dict held as a function
DictGet(d, k, default) == IF k \in DOMAIN d THEN d[k] ELSE default

\* diff_inventories keeping only the keys of the later snapshot
DiffOfLaterKeys(a, b) == [k \in DOMAIN b |-> b[k] - DictGet(a, k, 0)]

\* diff_inventories(a, b): b - a for each key in either map
diff_inventories(a, b) ==
    [k \in (DOMAIN a \cup DOMAIN b) |-> DictGet(b, k, 0) - DictGet(a, k, 0)]

\* the totals a snapshot may hold: every map from some of the resources to
\* an amount
Inventories == UNION {[S -> 0..MaxAmount] : S \in SUBSET (1..MaxKeys)}

DiffInit ==
    \E a \in Inventories, b \in Inventories :
        /\ prev_inv = a
        /\ cur_inv = b
        /\ delta = <<>>
        /\ ledger_rows = {}
        /\ lpc = "diff"

\* delta = diff_inventories(prev["inv"], cur["inv"])
DiffCall ==
    /\ lpc = "diff"
    /\ delta' = diff_inventories(prev_inv, cur_inv)
    /\ lpc' = "rows"
    /\ UNCHANGED <<prev_inv, cur_inv, ledger_rows>>
    /\ DiffOnly

\* one row of the ledger for resource rid with difference d
LedgerRow(rid, d) ==
    [resource_id |-> rid, acquired |-> Max2(d, 0), spent |-> Max2(0 - d, 0), net |-> d]

\* a loop that has no "continue"
EveryRow(d) == TRUE

\* "if acq == 0.0 and spent == 0.0: continue"
RowWritten(d) == ~(Max2(d, 0) = 0 /\ Max2(0 - d, 0) = 0)

\* the loop over delta.items(): a row for every resource that was acquired
\* or spent
LedgerRows ==
    /\ lpc = "rows"
    /\ ledger_rows' = {LedgerRow(rid, delta[rid]) : rid \in {k \in DOMAIN delta : RowWritten(delta[k])}}
    /\ lpc' = "done"
    /\ UNCHANGED <<prev_inv, cur_inv, delta>>
    /\ DiffOnly

DiffNext == DiffCall \/ LedgerRows

\* ------------------------------------------------------------------------
\* Strings (sequences of code points)
\* ------------------------------------------------------------------------

UpperChar(c) == IF c >= 97 /\ c <= 122 THEN c - 32 ELSE c

LowerChar(c) == IF c >= 65 /\ c <= 90 THEN c + 32 ELSE c

\* s.upper() and s.lower()
Upper(s) == [i \in DOMAIN s |-> UpperChar(s[i])]

Lower(s) == [i \in DOMAIN s |-> LowerChar(s[i])]

\* p in s
Contains(s, p) == FindFrom(s, p, 1) # 0

\* s.rfind(p) as a 1-based position, 0 when p is not in s
RECURSIVE RFindFrom(_, _, _)
RFindFrom(s, p, i) ==
    IF i < 1 THEN 0
    ELSE IF StartsWith(From(s, i), p) THEN i
    ELSE RFindFrom(s, p, i - 1)

RFind(s, p) == RFindFrom(s, p, Len(s) - Len(p) + 1)

\* int(s) for a string of ASCII digits
RECURSIVE DigitsToInt(_, _, _)
DigitsToInt(s, i, n) ==
    IF i > Len(s) THEN n ELSE DigitsToInt(s, i + 1, n * 10 + (s[i] - 48))

\* the end of the run of digits that starts at s[i]
RECURSIVE DigitsEnd(_, _)
DigitsEnd(s, i) == IF i <= Len(s) /\ IsDigit(s[i]) THEN DigitsEnd(s, i + 1) ELSE i

\* [int(x) for x in re.findall(r"\d+", s)] from position i on
RECURSIVE FindNumbers(_, _)
FindNumbers(s, i) ==
    IF i > Len(s) THEN <<>>
    ELSE IF ~IsDigit(s[i]) THEN FindNumbers(s, i + 1)
    ELSE <<DigitsToInt(SubSeq(s, i, DigitsEnd(s, i) - 1), 1, 0)>>
         \o FindNumbers(s, DigitsEnd(s, i))

\* x or default, for a string x
OrStr(x, default) == IF x = <<>> THEN default ELSE x

\* ------------------------------------------------------------------------
\* db_import_initial.py: the per-snapshot dedup stage
\* ------------------------------------------------------------------------

\* "IDX"
S_IDX == <<73, 68, 88>>

\* "UNKNOWN", "GENERAL", "Product", "Substance"
S_UNKNOWN == <<85, 78, 75, 78, 79, 87, 78>>

S_GENERAL == <<71, 69, 78, 69, 82, 65, 76>>

S_Product == <<80, 114, 111, 100, 117, 99, 116>>

S_Substance == <<83, 117, 98, 115, 116, 97, 110, 99, 101>>

\* _tuple_to_int: out = out * 1000 + n over nums
RECURSIVE TupleToInt(_, _, _)
TupleToInt(nums, i, out) ==
    IF i > Len(nums) THEN out ELSE TupleToInt(nums, i + 1, out * 1000 + nums[i])

_tuple_to_int(nums) == TupleToInt(nums, 1, 0)

\* the numbers of cont after its last "IDX" (none when cont has no "IDX")
IdxNumbers(cont) ==
    IF Contains(cont, S_IDX) THEN FindNumbers(cont, RFind(cont, S_IDX)) ELSE <<>>

\* compute_slot_index: the index, and per_key_counter after the call
compute_slot_index(cont, owner, inv, counter) ==
    IF IdxNumbers(cont) # <<>>
    THEN [idx |-> _tuple_to_int(IdxNumbers(cont)), counter |-> counter]
    ELSE [idx |-> DictGet(counter, <<owner, inv, cont>>, 0),
          counter |-> [k \in DOMAIN counter \cup {<<owner, inv, cont>>} |->
                          IF k = <<owner, inv, cont>>
                          THEN DictGet(counter, k, 0) + 1
                          ELSE counter[k]]]

\* the entry kept for a key whatever was there: the latest record's
KeepLatest(prev, amt, itype) == [amt |-> amt, itype |-> OrStr(itype, prev.itype)]

\* the entry of seen for a key that is already there, after a record with
\* amt and itype: "keep max amount"
KeepLarger(prev, amt, itype) ==
    IF amt > prev.amt THEN [amt |-> amt, itype |-> OrStr(itype, prev.itype)] ELSE prev

\* seen after a record with key skey
SeenAfter(sn, skey, amt, itype) ==
    [k \in DOMAIN sn \cup {skey} |->
        IF k # skey THEN sn[k]
        ELSE IF skey \notin DOMAIN sn THEN [amt |-> amt, itype |-> OrStr(itype, S_Product)]
        ELSE KeepLarger(sn[skey], amt, itype)]

\* the key of a record whose slot index is si
SlotKey(rec, si) ==
    <<Upper(OrStr(rec.owner, S_UNKNOWN)), Upper(OrStr(rec.inv, S_GENERAL)), rec.cont, si.idx,
      rec.rid>>

\* the slot index of a record, and per_key_counter after it
SlotIndexOf(rec, counter) ==
    compute_slot_index(rec.cont, Upper(OrStr(rec.owner, S_UNKNOWN)),
                       Upper(OrStr(rec.inv, S_GENERAL)), counter)

\* one turn of the loop over walk_items: st = [counter, seen, key] before,
\* the same after the record (key is the key the record got)
ConsumeWith(st, rec, si) ==
    [counter |-> si.counter,
     seen |-> SeenAfter(st.seen, SlotKey(rec, si), rec.amt, rec.itype),
     key |-> SlotKey(rec, si)]

Consume(st, rec) == ConsumeWith(st, rec, SlotIndexOf(rec, st.counter))

\* the longest sequence of records consumed
MaxRecs == 3

\* "FUEL1", "^OXYGEN", "SUIT"
S_FUEL1 == <<70, 85, 69, 76, 49>>

S_OXYGEN == <<94, 79, 88, 89, 71, 69, 78>>

S_SUIT == <<83, 85, 73, 84>>

\* container ids as infer_container_id makes them: "IDX1x2" from an index,
\* "7" from the last number of the path
S_IDX1x2 == <<73, 68, 88, 49, 120, 50>>

S_7 == <<55>>

\* the records walk_items may yield for two slots seen with two amounts
DedupRecords ==
    {[rid |-> r, amt |-> a, owner |-> S_SUIT, inv |-> S_GENERAL, cont |-> c,
      itype |-> IF r = S_FUEL1 THEN S_Product ELSE S_Substance] :
        r \in {S_FUEL1, S_OXYGEN}, a \in {3, 7}, c \in {S_IDX1x2, S_7}}

DedupInit ==
    \E n \in 1..MaxRecs :
        \E R \in [1..n -> DedupRecords] :
            /\ recs = R
            /\ rpos = 1
            /\ pass = 1
            /\ per_key_counter = <<>>
            /\ seen = <<>>
            /\ seen_once = <<>>
            /\ consumed = <<>>

\* what the loop body makes of the state of the loop and the next record
DedupStored(st) ==
    /\ per_key_counter' = st.counter
    /\ seen' = st.seen
    /\ consumed' = Append(consumed, [key |-> st.key, amt |-> recs[rpos].amt])

\* the body of "for (rid, amt, owner, inv, cont, itype) in walk_items(...)"
DedupConsume ==
    /\ pass \in {1, 2}
    /\ rpos <= Len(recs)
    /\ DedupStored(Consume([counter |-> per_key_counter, seen |-> seen, key |-> <<>>],
                           recs[rpos]))
    /\ rpos' = rpos + 1
    /\ UNCHANGED <<recs, pass, seen_once>>
    /\ DedupOnly

\* the same records arrive once more in the same loop: per_key_counter and
\* seen are kept
DedupRerun ==
    /\ pass = 1
    /\ rpos > Len(recs)
    /\ pass' = 2
    /\ rpos' = 1
    /\ seen_once' = seen
    /\ UNCHANGED <<recs, per_key_counter, seen, consumed>>
    /\ DedupOnly

DedupNext == DedupConsume \/ DedupRerun

\* ------------------------------------------------------------------------
\* nms_extract_inventory.py and runtime/inventory_fingerprint.py
\* ------------------------------------------------------------------------

\* the keys of the obfuscated save that the code reads
K_b2n == <<98, 50, 110>>

K_Vn8 == <<86, 110, 56>>

K_elv == <<101, 108, 118>>

K_1o9 == <<49, 111, 57>>

K_F9q == <<70, 57, 113>>

K_3ZH == <<51, 90, 72>>

K_Qh == <<62, 81, 104>>

K_XJ == <<88, 74, 62>>

\* the path segments that name an owner: ;l5  P;m  <IP  3Nc  8ZP
K_l5 == <<59, 108, 53>>

K_Pm == <<80, 59, 109>>

K_IP == <<60, 73, 80>>

K_3Nc == <<51, 78, 99>>

K_8ZP == <<56, 90, 80>>

S_SHIP == <<83, 72, 73, 80>>

S_FREIGHTER == <<70, 82, 69, 73, 71, 72, 84, 69, 82>>

S_FRIGATE == <<70, 82, 73, 71, 65, 84, 69>>

S_STORAGE == <<83, 84, 79, 82, 65, 71, 69>>

S_VEHICLE == <<86, 69, 72, 73, 67, 76, 69>>

S_CARGO == <<67, 65, 82, 71, 79>>

S_Technology == <<84, 101, 99, 104, 110, 111, 108, 111, 103, 121>>

GOOD_TYPES == {S_Substance, S_Product}

SANE_CAPS == {50, 100, 101, 200, 250, 500, 801, 1000, 1001, 2000, 9999}

\* "SMUGGLE_", "FLYER", "BIGGS_", "POLICE_", "GET_"
bad_prefixes ==
    {<<83, 77, 85, 71, 71, 76, 69, 95>>,
     <<70, 76, 89, 69, 82>>,
     <<66, 73, 71, 71, 83, 95>>,
     <<80, 79, 76, 73, 67, 69, 95>>,
     <<71, 69, 84, 95>>}

\* str.isdigit for one character, among the code points of the model: the
\* ASCII digits and the superscripts U+00B2, U+00B3, U+00B9
PyIsDigit(c) == IsDigit(c) \/ c \in {178, 179, 185}

\* the deny-list with its season-counter rule left out
OnlyBadPrefixes(rid) ==
    /\ rid # <<>>
    /\ rid[1] = 94
    /\ \E p \in bad_prefixes : StartsWith(Tail(rid), p)

\* is_progress_token(rid) for a str rid
is_progress_token(rid) ==
    IF rid = <<>> THEN FALSE
    ELSE IF rid[1] # 94 THEN FALSE
    ELSE IF \E p \in bad_prefixes : StartsWith(Tail(rid), p) THEN TRUE
    ELSE /\ Len(rid) - 1 >= 4
         /\ rid[2] = 83
         /\ PyIsDigit(rid[3])
         /\ PyIsDigit(rid[4])
         /\ rid[5] = 95

\* isinstance(v, int): bool is a subclass of int
IsPyInt(v) == v.t \in {"int", "bool"}

\* the number an int or a bool counts as
PyInt(v) == IF v.t = "bool" THEN (IF v.v THEN 1 ELSE 0) ELSE v.v

\* d.get(key) for a dict d: None (null) when the key is missing
JGet(d, key) == IF DictHas(d.v, key) THEN DictAt(d.v, key) ELSE JNull

\* dict_get(d, key, default)
dict_get(d, key, default) ==
    IF d.t = "dict" THEN (IF DictHas(d.v, key) THEN DictAt(d.v, key) ELSE default)
    ELSE default

\* obj_is_slot(d)
obj_is_slot(d) ==
    /\ d.t = "dict"
    /\ JGet(d, K_b2n).t = "str"
    /\ StartsWith(JGet(d, K_b2n).v, <<94>>)
    /\ dict_get(dict_get(d, K_Vn8, JDict(<<>>)), K_elv, JNull).t = "str"
    /\ dict_get(dict_get(d, K_Vn8, JDict(<<>>)), K_elv, JNull).v \in GOOD_TYPES
    /\ IsPyInt(JGet(d, K_1o9))
    /\ IsPyInt(JGet(d, K_F9q))
    /\ ~(PyInt(JGet(d, K_1o9)) < 0)
    /\ ~(/\ PyInt(JGet(d, K_F9q)) \notin SANE_CAPS
         /\ PyInt(JGet(d, K_1o9)) > PyInt(JGet(d, K_F9q))
         /\ PyInt(JGet(d, K_1o9)) >= 9999)

\* path_has_bad_context: a segment named RQA, b69 or JWK
path_has_bad_context(path) ==
    \E i \in DOMAIN path :
        path[i].t = "str" /\ path[i].v \in {<<82, 81, 65>>, <<98, 54, 57>>, <<74, 87, 75>>}

\* the fallback with the larger of the two taken
LargestPositive(amount, cap) ==
    IF amount > 0 /\ cap > 0 THEN Max2(amount, cap)
    ELSE IF amount > 0 THEN amount
    ELSE IF cap > 0 THEN cap
    ELSE 0

\* "pick the smaller positive of the two": min of the positive ones, else 0
SmallestPositive(amount, cap) ==
    IF amount > 0 /\ cap > 0 THEN Min2(amount, cap)
    ELSE IF amount > 0 THEN amount
    ELSE IF cap > 0 THEN cap
    ELSE 0

\* the amount nms_extract_inventory reports for a slot
ExtractAmount(amount, cap) ==
    IF cap \in SANE_CAPS /\ amount <= cap THEN amount ELSE SmallestPositive(amount, cap)

\* inventory_fingerprint._amount(slot)
_amount(slot) ==
    IF ~IsPyInt(JGet(slot, K_1o9)) \/ ~IsPyInt(JGet(slot, K_F9q)) THEN 0
    ELSE IF /\ PyInt(JGet(slot, K_F9q)) \in SANE_CAPS
            /\ PyInt(JGet(slot, K_1o9)) <= PyInt(JGet(slot, K_F9q))
         THEN Max2(PyInt(JGet(slot, K_1o9)), 0)
    ELSE SmallestPositive(PyInt(JGet(slot, K_1o9)), PyInt(JGet(slot, K_F9q)))

\* str(p) for a path segment
SegText(seg) == IF seg.t = "int" THEN IntText(seg.v) ELSE seg.v

\* ".".join(str(p) for p in path[-n:])
PathTail(path, n) ==
    JoinWith([i \in 1..Min2(n, Len(path)) |->
                 SegText(path[Len(path) - Min2(n, Len(path)) + i])], <<46>>)

\* the owner a dotted path names: ".;l5." and so on
OwnerOfText(pstr) ==
    IF Contains(pstr, <<46>> \o K_l5 \o <<46>>) THEN S_SUIT
    ELSE IF Contains(pstr, <<46>> \o K_Pm \o <<46>>) THEN S_SHIP
    ELSE IF Contains(pstr, <<46>> \o K_IP \o <<46>>) THEN S_FREIGHTER
    ELSE IF Contains(pstr, <<46>> \o K_3Nc \o <<46>>) THEN S_STORAGE
    ELSE IF Contains(pstr, <<46>> \o K_8ZP \o <<46>>) THEN S_VEHICLE
    ELSE S_UNKNOWN

\* the owner inference of nms_extract_inventory.main
ExtractOwner(path) == OwnerOfText(PathTail(path, 12))

\* the str segments of a path
StrSegs(path) == {path[i].v : i \in {j \in DOMAIN path : path[j].t = "str"}}

\* _infer_owner before FREIGHTER is renamed
OwnerOfSegs(path) ==
    IF K_l5 \in StrSegs(path) THEN S_SUIT
    ELSE IF K_Pm \in StrSegs(path) THEN S_SHIP
    ELSE IF K_IP \in StrSegs(path) THEN S_FREIGHTER
    ELSE IF K_3Nc \in StrSegs(path) THEN S_STORAGE
    ELSE IF K_8ZP \in StrSegs(path) THEN S_VEHICLE
    ELSE OwnerOfText(PathTail(path, 256))

\* inventory_fingerprint._infer_owner(path)
_infer_owner(path) ==
    IF OwnerOfSegs(path) = S_FREIGHTER THEN S_FRIGATE ELSE OwnerOfSegs(path)

\* the inventory bucket of nms_extract_inventory.main, z = obj["3ZH"] or {}
ExtractInventory(z, amt) ==
    IF /\ IsPyInt(JGet(z, K_Qh))
       /\ IsPyInt(JGet(z, K_XJ))
       /\ (amt > 500 \/ PyInt(JGet(z, K_Qh)) >= 5 \/ PyInt(JGet(z, K_XJ)) >= 2)
    THEN S_CARGO
    ELSE S_GENERAL

\* path_signature: "SIG:" and ten hex digits of the SHA-1 of the str
\* segments joined by "/".  The digest is not computed: the signature is
\* held as the text it is the digest of.
path_signature(path) ==
    [sig_of |-> JoinWith([i \in 1..Cardinality({j \in DOMAIN path : path[j].t = "str"}) |->
                             path[CHOOSE j \in DOMAIN path :
                                     /\ path[j].t = "str"
                                     /\ Cardinality({m \in 1..j : path[m].t = "str"}) = i].v],
                         <<47>>)]

\* "Derive a slot index from last numeric segment in path", -1 without one
LastIndex(path) ==
    IF \A i \in DOMAIN path : path[i].t # "int" THEN -1
    ELSE path[CHOOSE i \in DOMAIN path :
                  path[i].t = "int" /\ \A j \in DOMAIN path : j > i => path[j].t # "int"].v

\* what walk() pushes for a dict or a list popped at path
Children(path, val) ==
    IF val.t = "dict"
    THEN [i \in DOMAIN val.v |-> [path |-> Append(path, JStr(val.v[i][1])), val |-> val.v[i][2]]]
    ELSE IF val.t = "list"
    THEN [i \in DOMAIN val.v |-> [path |-> Append(path, JInt(i - 1)), val |-> val.v[i]]]
    ELSE <<>>


\* a < b for two str
RECURSIVE StrLess(_, _)
StrLess(a, b) ==
    IF b = <<>> THEN FALSE
    ELSE IF a = <<>> THEN TRUE
    ELSE IF a[1] # b[1] THEN a[1] < b[1]
    ELSE StrLess(Tail(a), Tail(b))

\* the order of the totals file: key=lambda kv: (-kv[1], kv[0])
TotalsBefore(x, y) == x[2] > y[2] \/ (x[2] = y[2] /\ StrLess(x[1], y[1]))

FirstTotal(S) == CHOOSE x \in S : \A y \in S \ {x} : TotalsBefore(x, y)

RECURSIVE SortedTotals(_)
SortedTotals(S) ==
    IF S = {} THEN <<>> ELSE <<FirstTotal(S)>> \o SortedTotals(S \ {FirstTotal(S)})

\* the order of sorted(totals) for keys (owner, rid)
KeyBefore(x, y) == StrLess(x[1], y[1]) \/ (x[1] = y[1] /\ StrLess(x[2], y[2]))

FirstKey(S) == CHOOSE x \in S : \A y \in S \ {x} : KeyBefore(x, y)

RECURSIVE SortedKeys(_)
SortedKeys(S) ==
    IF S = {} THEN <<>> ELSE <<FirstKey(S)>> \o SortedKeys(S \ {FirstKey(S)})

\* f"{o}|{rid}|{total}"
FingerprintRow(key, total) == key[1] \o <<124>> \o key[2] \o <<124>> \o IntText(total)

\* totals[key] += amt
TotalsAdd(tot, key, amt) ==
    [k \in DOMAIN tot \cup {key} |-> IF k = key THEN DictGet(tot, key, 0) + amt ELSE tot[k]]

\* the body of the loop of nms_extract_inventory.main for the dict obj at
\* path: "skip" (continue), "crash" (obj["3ZH"] is no dict: z.get raises
\* AttributeError) or "count" with the slot row
ExtractSlot(path, obj) ==
    IF path_has_bad_context(path) THEN [kind |-> "skip"]
    ELSE IF ~obj_is_slot(obj) THEN [kind |-> "skip"]
    ELSE IF is_progress_token(JGet(obj, K_b2n).v) THEN [kind |-> "skip"]
    ELSE IF ExtractAmount(PyInt(JGet(obj, K_1o9)), PyInt(JGet(obj, K_F9q))) <= 0
    THEN [kind |-> "skip"]
    ELSE IF dict_get(obj, K_3ZH, JDict(<<>>)).t # "dict" THEN [kind |-> "crash"]
    ELSE [kind |-> "count",
          key |-> JGet(obj, K_b2n).v,
          row |-> [owner_type |-> ExtractOwner(path),
                   inventory |-> ExtractInventory(
                       dict_get(obj, K_3ZH, JDict(<<>>)),
                       ExtractAmount(PyInt(JGet(obj, K_1o9)), PyInt(JGet(obj, K_F9q)))),
                   container_id |-> path_signature(path),
                   slot_index |-> LastIndex(path),
                   resource_id |-> JGet(obj, K_b2n).v,
                   amount |-> ExtractAmount(PyInt(JGet(obj, K_1o9)), PyInt(JGet(obj, K_F9q))),
                   at |-> path,
                   raw_amount |-> PyInt(JGet(obj, K_1o9)),
                   cap |-> PyInt(JGet(obj, K_F9q))]]

\* the body of the loop of compute_rows for the dict val at path
FingerprintSlot(path, val) ==
    IF ~obj_is_slot(val) THEN [kind |-> "skip"]
    ELSE IF is_progress_token(JGet(val, K_b2n).v) THEN [kind |-> "skip"]
    ELSE IF _amount(val) <= 0 THEN [kind |-> "skip"]
    ELSE [kind |-> "count",
          key |-> <<_infer_owner(path), JGet(val, K_b2n).v>>,
          row |-> [owner_type |-> _infer_owner(path),
                   resource_id |-> JGet(val, K_b2n).v,
                   amount |-> _amount(val),
                   at |-> path,
                   raw_amount |-> PyInt(JGet(val, K_1o9)),
                   cap |-> PyInt(JGet(val, K_F9q))]]

\* a slot object of the obfuscated save
Slot(rid, amount, cap, elv) ==
    JDict(<< <<K_Vn8, JDict(<< <<K_elv, JStr(elv)>> >>)>>, <<K_b2n, JStr(rid)>>,
             <<K_1o9, amount>>, <<K_F9q, cap>> >>)

\* a slot with a "3ZH" entry
WithGrid(slot, z) == JDict(Append(slot.v, <<K_3ZH, z>>))

\* resource ids: ^S19_X, ^S1_X, ^S19X, ^S1(superscript two)_X, ^FLYER,
\* ^SMUGGLE_A, ^FUEL1, FUEL1
S_S19_X == <<94, 83, 49, 57, 95, 88>>

WalkRids ==
    {S_S19_X,
     <<94, 83, 49, 95, 88>>,
     <<94, 83, 49, 57, 88>>,
     <<94, 83, 49, 178, 95, 88>>,
     <<94, 70, 76, 89, 69, 82>>,
     <<94, 83, 77, 85, 71, 71, 76, 69, 95, 65>>,
     <<94, 70, 85, 69, 76, 49>>,
     S_FUEL1}

WalkAmounts == {JInt(-1), JInt(0), JInt(5), JInt(251), JInt(9999), JInt(10000), JBool(TRUE)}

WalkCaps == {JInt(-5), JInt(0), JInt(7), JInt(250), JInt(9999)}

\* the slot every document holds next to the one that varies: 40 of ^OXYGEN
FixedSlot == Slot(S_OXYGEN, JInt(40), JInt(250), S_Product)

WalkSlots ==
    {Slot(r, a, c, S_Substance) : r \in WalkRids, a \in WalkAmounts, c \in WalkCaps}
    \cup {Slot(S_OXYGEN, JInt(5), JInt(250), S_Technology),
          WithGrid(FixedSlot, JInt(3)),
          WithGrid(FixedSlot, JNull),
          WithGrid(FixedSlot, JDict(<< <<K_Qh, JInt(5)>>, <<K_XJ, JInt(0)>> >>))}

WalkLayouts == {"nested", "top", "bad", "root", "freighter"}

\* the document of a layout around slot x
WalkDoc(layout, x) ==
    CASE layout = "nested" ->
             JDict(<< <<<<120>>, JDict(<< <<K_l5, JList(<<x, FixedSlot>>)>> >>)>> >>)
      [] layout = "top" -> JDict(<< <<K_l5, JList(<<x, FixedSlot>>)>> >>)
      [] layout = "bad" ->
             JDict(<< <<<<82, 81, 65>>, JList(<<x>>)>>,
                      <<K_Pm, JDict(<< <<<<107>>, JList(<<FixedSlot>>)>> >>)>> >>)
      [] layout = "root" -> x
      [] layout = "freighter" ->
             JDict(<< <<<<97>>, JDict(<< <<K_IP, JList(<<FixedSlot, x>>)>> >>)>> >>)

WalkInit ==
    \E prog \in {"extract", "fingerprint"}, layout \in WalkLayouts, x \in WalkSlots :
        /\ wprog = prog
        /\ wsrc = [layout |-> layout, slot |-> x]
        /\ wdoc = WalkDoc(layout, x)
        /\ wstack = <<[path |-> <<>>, val |-> WalkDoc(layout, x)]>>
        /\ totals = <<>>
        /\ counted = <<>>
        /\ wout = <<>>
        /\ wpc = "walk"

\* what the loop body does with the outcome for a dict
WalkOutcome(out) ==
    IF out.kind = "crash" THEN wpc' = "crashed" /\ UNCHANGED <<totals, counted>>
    ELSE IF out.kind = "skip" THEN UNCHANGED <<totals, counted, wpc>>
    ELSE /\ totals' = TotalsAdd(totals, out.key, out.row.amount)
         /\ counted' = Append(counted, out.row)
         /\ UNCHANGED wpc

\* one turn of the while loop of walk(): the top of the stack is popped, a
\* dict is handed to the loop body of the program, and the children of a
\* dict or a list are pushed
WalkPop ==
    /\ wpc = "walk"
    /\ wstack # <<>>
    /\ wstack' = SubSeq(wstack, 1, Len(wstack) - 1)
                     \o Children(wstack[Len(wstack)].path, wstack[Len(wstack)].val)
    /\ IF wstack[Len(wstack)].val.t # "dict" THEN UNCHANGED <<totals, counted, wpc>>
       ELSE IF wprog = "extract"
       THEN WalkOutcome(ExtractSlot(wstack[Len(wstack)].path, wstack[Len(wstack)].val))
       ELSE WalkOutcome(FingerprintSlot(wstack[Len(wstack)].path, wstack[Len(wstack)].val))
    /\ UNCHANGED <<wprog, wsrc, wdoc, wout>>
    /\ WalkOnly

\* after the loop: the totals file and the slot rows of the extractor, the
\* rows of compute_rows
WalkFinish ==
    /\ wpc = "walk"
    /\ wstack = <<>>
    /\ wout' = IF wprog = "extract"
               THEN [totals_csv |-> SortedTotals({<<k, totals[k]>> : k \in DOMAIN totals}),
                     slots_csv |-> counted]
               ELSE [rows |-> [i \in 1..Cardinality(DOMAIN totals) |->
                                  FingerprintRow(SortedKeys(DOMAIN totals)[i],
                                                 totals[SortedKeys(DOMAIN totals)[i]])]]
    /\ wpc' = "done"
    /\ UNCHANGED <<wprog, wsrc, wdoc, wstack, totals, counted>>
    /\ WalkOnly

WalkNext == WalkPop \/ WalkFinish


\* ------------------------------------------------------------------------
\* db_import_initial.py: walk_items and the rows of nms_items
\* ------------------------------------------------------------------------

\* the characters str.strip() removes
IsPySpace(c) == c \in {9, 10, 11, 12, 13, 28, 29, 30, 31, 32, 133, 160}

RECURSIVE LStrip(_)
LStrip(s) == IF s # <<>> /\ IsPySpace(s[1]) THEN LStrip(Tail(s)) ELSE s

RECURSIVE RStrip(_)
RStrip(s) ==
    IF s # <<>> /\ IsPySpace(s[Len(s)]) THEN RStrip(SubSeq(s, 1, Len(s) - 1)) ELSE s

\* s.strip()
Strip(s) == RStrip(LStrip(s))

\* ("Id", "ID", "Symbol", "ProductId", "SubstanceId", "ResourceId", "TypeId")
ID_KEYS ==
    <<<<73, 100>>, <<73, 68>>, <<83, 121, 109, 98, 111, 108>>, <<80, 114, 111, 100, 117, 99, 116, 73, 100>>, <<83, 117, 98, 115, 116, 97, 110, 99, 101, 73, 100>>, <<82, 101, 115, 111, 117, 114, 99, 101, 73, 100>>, <<84, 121, 112, 101, 73, 100>>>>

\* the first of keys under which d holds a string that is not blank, stripped
RECURSIVE IdByKeys(_, _, _)
IdByKeys(d, keys, i) ==
    IF i > Len(keys) THEN None
    ELSE IF JGet(d, keys[i]).t = "str" /\ Strip(JGet(d, keys[i]).v) # <<>>
    THEN Some(Strip(JGet(d, keys[i]).v))
    ELSE IdByKeys(d, keys, i + 1)

\* [A-Z0-9_]
IdChar(c) == (c >= 65 /\ c <= 90) \/ IsDigit(c) \/ c = 95

\* what [A-Z0-9_]+ has to match: v after its "^", up to the end of v or to
\* the newline that ends v ("$" matches before a final newline)
CaretBody(v) ==
    IF v[Len(v)] = 10 THEN SubSeq(v, 2, Len(v) - 1) ELSE SubSeq(v, 2, Len(v))

\* re.match(r"^\^[A-Z0-9_]+$", v)
IsCaretId(v) ==
    /\ Len(v) >= 2
    /\ v[1] = 94
    /\ CaretBody(v) # <<>>
    /\ \A i \in DOMAIN CaretBody(v) : IdChar(CaretBody(v)[i])

\* the first value of the dict that is a string like "^ANTIMATTER"
RECURSIVE FirstCaretValue(_, _)
FirstCaretValue(pairs, i) ==
    IF i > Len(pairs) THEN None
    ELSE IF pairs[i][2].t = "str" /\ IsCaretId(pairs[i][2].v) THEN Some(pairs[i][2].v)
    ELSE FirstCaretValue(pairs, i + 1)

\* the ids of obj["Default"] when that is a dict
DefaultId(d) == IF d.t = "dict" THEN IdByKeys(d, ID_KEYS, 1) ELSE None

get_id_from(obj) ==
    OrElse(IdByKeys(obj, ID_KEYS, 1),
           OrElse(DefaultId(JGet(obj, <<68, 101, 102, 97, 117, 108, 116>>)), FirstCaretValue(obj.v, 1)))

\* ("Amount", "F9q", "1o9", "StackSize")
AMOUNT_PRIORITIES == <<<<65, 109, 111, 117, 110, 116>>, K_F9q, K_1o9, <<83, 116, 97, 99, 107, 83, 105, 122, 101>>>>

\* s.isdigit(), for the ASCII strings of the documents here
AllDigits(s) == s # <<>> /\ \A i \in DOMAIN s : IsDigit(s[i])

\* an int or float, or a string of digits, as an int
NumberOf(v) ==
    IF IsPyInt(v) THEN Some(PyInt(v))
    ELSE IF v.t = "str" /\ AllDigits(Strip(v.v)) THEN Some(DigitsToInt(Strip(v.v), 1, 0))
    ELSE None

\* the amount under one of the preferred keys
AmountOfValue(v) ==
    IF NumberOf(v).ok THEN NumberOf(v)
    ELSE IF v.t = "dict" THEN NumberOf(JGet(v, <<86, 97, 108, 117, 101>>))
    ELSE None

RECURSIVE AmountByKeys(_, _, _)
AmountByKeys(obj, keys, i) ==
    IF i > Len(keys) THEN None
    ELSE OrElse(AmountOfValue(JGet(obj, keys[i])), AmountByKeys(obj, keys, i + 1))

\* [v for v in d.values() if isinstance(v, int)]
RECURSIVE IntsOf(_, _)
IntsOf(pairs, i) ==
    IF i > Len(pairs) THEN <<>>
    ELSE (IF IsPyInt(pairs[i][2]) THEN <<PyInt(pairs[i][2])>> ELSE <<>>)
         \o IntsOf(pairs, i + 1)

\* max(ints), None when there are none
MaxOfInts(ints) ==
    IF ints = <<>> THEN None
    ELSE Some(CHOOSE x \in Range(ints) : \A y \in Range(ints) : y <= x)

get_amount_from(obj) ==
    OrElse(AmountByKeys(obj, AMOUNT_PRIORITIES, 1), MaxOfInts(IntsOf(obj.v, 1)))

\* ("Product", "Substance", "Technology")
ItemTypes == {S_Product, S_Substance, S_Technology}

\* the first value of a dict that is one of the item types
RECURSIVE FirstTypeIn(_, _)
FirstTypeIn(pairs, i) ==
    IF i > Len(pairs) THEN None
    ELSE IF pairs[i][2].t = "str" /\ pairs[i][2].v \in ItemTypes THEN Some(pairs[i][2].v)
    ELSE FirstTypeIn(pairs, i + 1)

\* the first item type in a nested dict of obj
RECURSIVE NestedType(_, _)
NestedType(pairs, i) ==
    IF i > Len(pairs) THEN None
    ELSE OrElse(IF pairs[i][2].t = "dict" THEN FirstTypeIn(pairs[i][2].v, 1) ELSE None,
                NestedType(pairs, i + 1))

\* " / ".join(path_stack)
PathText(path_stack) == JoinWith(path_stack, <<32, 47, 32>>)

\* the "context fallback" of get_item_type on p = " / ".join(path_stack).lower()
TypeOfContext(p) ==
    IF Contains(p, <<116, 101, 99, 104>>) \/ Contains(p, <<116, 101, 99, 104, 110, 111, 108, 111, 103, 121>>) THEN S_Technology
    ELSE IF Contains(p, <<115, 117, 98, 115, 116, 97, 110, 99, 101>>) THEN S_Substance
    ELSE S_Product

\* obj["Type"]["InventoryType"] when it is a string, else None
ExplicitType(t) ==
    IF t.t = "dict" /\ JGet(t, <<73, 110, 118, 101, 110, 116, 111, 114, 121, 84, 121, 112, 101>>).t = "str"
    THEN Some(JGet(t, <<73, 110, 118, 101, 110, 116, 111, 114, 121, 84, 121, 112, 101>>).v) ELSE None

get_item_type(obj, path_stack) ==
    IF ExplicitType(JGet(obj, <<84, 121, 112, 101>>)).ok /\ ExplicitType(JGet(obj, <<84, 121, 112, 101>>)).v # <<>>
    THEN ExplicitType(JGet(obj, <<84, 121, 112, 101>>)).v
    ELSE IF NestedType(obj.v, 1).ok THEN NestedType(obj.v, 1).v
    ELSE TypeOfContext(Lower(PathText(path_stack)))

OWNER_TOKENS ==
    << <<S_SUIT, <<<<83, 117, 105, 116>>, <<80, 108, 97, 121, 101, 114>>, <<69, 120, 111, 115, 117, 105, 116>>, <<80, 108, 97, 121, 101, 114, 83, 116, 97, 116, 101, 68, 97, 116, 97>>>> >>,
       <<S_SHIP, <<<<83, 104, 105, 112>>, <<67, 117, 114, 114, 101, 110, 116, 83, 104, 105, 112>>, <<83, 112, 97, 99, 101, 115, 104, 105, 112>>, <<83, 104, 105, 112, 79, 119, 110, 101, 114, 115, 104, 105, 112>>>> >>,
       <<S_FREIGHTER, <<<<70, 114, 101, 105, 103, 104, 116, 101, 114>>>> >>,
       <<S_VEHICLE, <<<<86, 101, 104, 105, 99, 108, 101>>, <<86, 101, 104, 105, 99, 108, 101, 73, 110, 118, 101, 110, 116, 111, 114, 121>>>> >>,
       <<S_STORAGE, <<<<83, 116, 111, 114, 97, 103, 101>>, <<83, 116, 111, 114, 97, 103, 101, 67, 111, 110, 116, 97, 105, 110, 101, 114>>>> >>,
       <<<<80, 69, 84>>, <<<<80, 101, 116>>, <<67, 114, 101, 97, 116, 117, 114, 101>>>> >>,
       <<<<66, 65, 83, 69>>, <<<<66, 97, 115, 101>>>> >> >>

\* the first label, from the i-th on, one of whose hints is in p
RECURSIVE OwnerByTokens(_, _)
OwnerByTokens(p, i) ==
    IF i > Len(OWNER_TOKENS) THEN S_UNKNOWN
    ELSE IF \E j \in DOMAIN OWNER_TOKENS[i][2] :
                Contains(Lower(p), Lower(OWNER_TOKENS[i][2][j]))
    THEN OWNER_TOKENS[i][1]
    ELSE OwnerByTokens(p, i + 1)

infer_owner_type(path_stack) == OwnerByTokens(PathText(path_stack), 1)

\* on p = " / ".join(path_stack).lower()
InventoryKindOf(p) ==
    IF Contains(p, <<116, 101, 99, 104>>) \/ Contains(p, <<116, 101, 99, 104, 110, 111, 108, 111, 103, 121>>) THEN <<84, 69, 67, 72, 79, 78, 76, 89>>
    ELSE IF Contains(p, <<99, 97, 114, 103, 111>>) THEN S_CARGO
    ELSE S_GENERAL

infer_inventory_kind(path_stack) == InventoryKindOf(Lower(PathText(path_stack)))


\* a 24-bit checksum of a text: it stands for the first six hex digits of
\* the SHA-1 digest, a function of the text alone
RECURSIVE Checksum(_, _, _)
Checksum(s, i, h) ==
    IF i > Len(s) THEN h ELSE Checksum(s, i + 1, (h * 31 + s[i]) % 16777216)

\* n as k hex digits
RECURSIVE HexText(_, _)
HexText(n, k) == IF k = 0 THEN <<>> ELSE HexText(n \div 16, k - 1) \o <<HexDigit(n % 16)>>

\* path_stack[-n:]
LastOf(path_stack, n) ==
    SubSeq(path_stack, Max2(1, Len(path_stack) - n + 1), Len(path_stack))

\* "C" + h[:6].upper() for the digest h of "/".join(path_stack[-8:])
path_fingerprint(path_stack) ==
    <<67>> \o Upper(HexText(Checksum(JoinWith(LastOf(path_stack, 8), <<47>>), 1, 0), 6))

\* "x".join(str(int(x)) for x in ints)
JoinInts(ints) == JoinWith([i \in DOMAIN ints |-> IntText(ints[i])], <<120>>)

\* base from an explicit Index: f"IDX{x}x{y}" and f"x{z}" when z is an int
IndexBase(idx) ==
    IF idx.t = "dict" /\ IsPyInt(JGet(idx, <<88>>)) /\ IsPyInt(JGet(idx, <<89>>))
    THEN S_IDX \o IntText(PyInt(JGet(idx, <<88>>))) \o <<120>>
             \o IntText(PyInt(JGet(idx, <<89>>)))
             \o (IF IsPyInt(JGet(idx, <<90>>))
                 THEN <<120>> \o IntText(PyInt(JGet(idx, <<90>>))) ELSE <<>>)
    ELSE <<>>

\* a dict value with two or three ints
HasIndexInts(dv) == dv.t = "dict" /\ Len(IntsOf(dv.v, 1)) \in {2, 3}

\* base from the first child dict with two or three ints
RECURSIVE ChildIndexBase(_, _)
ChildIndexBase(pairs, i) ==
    IF i > Len(pairs) THEN <<>>
    ELSE IF HasIndexInts(pairs[i][2]) THEN S_IDX \o JoinInts(IntsOf(pairs[i][2].v, 1))
    ELSE ChildIndexBase(pairs, i + 1)

\* (Storage(?:Container)?)(\d+) with re.I matched at position i of seg:
\* group 1 in upper case and the digits, or "" when there is no match at i
StorageMatchAt(seg, i) ==
    IF ~StartsWith(Lower(From(seg, i)), <<115, 116, 111, 114, 97, 103, 101>>) THEN <<>>
    ELSE IF /\ StartsWith(Lower(From(seg, i + 7)), <<99, 111, 110, 116, 97, 105, 110, 101, 114>>)
            /\ i + 16 <= Len(seg)
            /\ IsDigit(seg[i + 16])
    THEN Upper(SubSeq(seg, i, i + 15)) \o SubSeq(seg, i + 16, DigitsEnd(seg, i + 16) - 1)
    ELSE IF i + 7 <= Len(seg) /\ IsDigit(seg[i + 7])
    THEN Upper(SubSeq(seg, i, i + 6)) \o SubSeq(seg, i + 7, DigitsEnd(seg, i + 7) - 1)
    ELSE <<>>

\* x, or rest when x is empty
NonEmptyOr(x, rest) == IF x # <<>> THEN x ELSE rest

\* re.search of that pattern in seg, from position i on
RECURSIVE StorageSearch(_, _)
StorageSearch(seg, i) ==
    IF i > Len(seg) THEN <<>>
    ELSE NonEmptyOr(StorageMatchAt(seg, i), StorageSearch(seg, i + 1))

\* base from the last path segment, from the i-th back, that names a storage
RECURSIVE StorageBase(_, _)
StorageBase(path_stack, i) ==
    IF i < 1 THEN <<>>
    ELSE NonEmptyOr(StorageSearch(path_stack[i], 1), StorageBase(path_stack, i - 1))

\* the start of the run of digits that ends at s[i]
RECURSIVE DigitsStart(_, _)
DigitsStart(s, i) == IF i >= 1 /\ IsDigit(s[i]) THEN DigitsStart(s, i - 1) ELSE i + 1

\* the last one to three of the digits that end s
LastDigits(s) == SubSeq(s, Max2(DigitsStart(s, Len(s)), Len(s) - 2), Len(s))

\* re.search(r"(\d{1,3})$", seg): "$" also matches before a final newline
TrailingNumber(seg) ==
    IF seg # <<>> /\ seg[Len(seg)] = 10
    THEN LastDigits(SubSeq(seg, 1, Len(seg) - 1))
    ELSE LastDigits(seg)

\* base from the last path segment, from the i-th back, that ends in digits
RECURSIVE TrailingBase(_, _)
TrailingBase(path_stack, i) ==
    IF i < 1 THEN <<>>
    ELSE NonEmptyOr(TrailingNumber(path_stack[i]), TrailingBase(path_stack, i - 1))

\* the end of infer_container_id: a generic base under an UNKNOWN owner gets
\* the fingerprint of the path in front
WithFingerprint(base, path_stack, owner_type) ==
    IF owner_type = S_UNKNOWN /\ StartsWith(base, S_IDX)
    THEN path_fingerprint(path_stack) \o <<45>> \o base
    ELSE base

infer_container_id(obj, path_stack, owner_type) ==
    WithFingerprint(
        NonEmptyOr(IndexBase(JGet(obj, <<73, 110, 100, 101, 120>>)),
            NonEmptyOr(ChildIndexBase(obj.v, 1),
                NonEmptyOr(StorageBase(path_stack, Len(path_stack)),
                           TrailingBase(path_stack, Len(path_stack))))),
        path_stack, owner_type)

looks_like_nmst_slot(obj) ==
    /\ FirstCaretValue(obj.v, 1).ok
    /\ \E i \in DOMAIN obj.v : HasIndexInts(obj.v[i][2])
    /\ \E i \in DOMAIN obj.v :
          obj.v[i][2].t = "dict" /\ FirstTypeIn(obj.v[i][2].v, 1).ok
    /\ Cardinality({i \in DOMAIN obj.v : obj.v[i][2].t = "bool"}) >= 2

\* is_readable: an explicit Type or an explicit Index
IsReadable(obj) ==
    \/ ExplicitType(JGet(obj, <<84, 121, 112, 101>>)).ok
    \/ /\ JGet(obj, <<73, 110, 100, 101, 120>>).t = "dict"
       /\ IsPyInt(JGet(JGet(obj, <<73, 110, 100, 101, 120>>), <<88>>))
       /\ IsPyInt(JGet(JGet(obj, <<73, 110, 100, 101, 120>>), <<89>>))

\* what walk_items yields for the dict obj itself, given its id and amount
ItemOf(obj, path_stack, rid, amt) ==
    IF ~rid.ok \/ ~amt.ok THEN <<>>
    ELSE IF StartsWith(rid.v, <<94>>) /\ ~IsReadable(obj) /\ ~looks_like_nmst_slot(obj)
    THEN <<>>
    ELSE IF StartsWith(rid.v, <<94, 85, 73, 95>>) /\ ~looks_like_nmst_slot(obj) THEN <<>>
    ELSE <<[rid |-> rid.v,
            amt |-> amt.v,
            owner |-> infer_owner_type(path_stack),
            inv |-> infer_inventory_kind(path_stack),
            cont |-> infer_container_id(obj, path_stack, infer_owner_type(path_stack)),
            itype |-> OrStr(get_item_type(obj, path_stack), S_Product)]>>

\* str(k) of the i-th child of a dict or a list
ChildName(obj, i) == IF obj.t = "dict" THEN obj.v[i][1] ELSE NatText(i - 1)

ChildValue(obj, i) == IF obj.t = "dict" THEN obj.v[i][2] ELSE obj.v[i]

\* walk_items(obj, path_stack): the tuples it yields, in order
RECURSIVE walk_items(_, _)
RECURSIVE WalkChildren(_, _, _)
walk_items(obj, path_stack) ==
    IF obj.t = "dict"
    THEN ItemOf(obj, path_stack, get_id_from(obj), get_amount_from(obj))
             \o WalkChildren(obj, path_stack, 1)
    ELSE IF obj.t = "list" THEN WalkChildren(obj, path_stack, 1)
    ELSE <<>>

\* what the loops over the children yield from the i-th child on
WalkChildren(obj, path_stack, i) ==
    IF i > Len(obj.v) THEN <<>>
    ELSE walk_items(ChildValue(obj, i), Append(path_stack, ChildName(obj, i)))
             \o WalkChildren(obj, path_stack, i + 1)

\* the loop of main over what walk_items yields, from the i-th tuple on
RECURSIVE ConsumeAll(_, _, _)
ConsumeAll(st, items, i) ==
    IF i > Len(items) THEN st ELSE ConsumeAll(Consume(st, items[i]), items, i + 1)

\* the INSERT INTO nms_items statements for seen: one per entry
ItemRows(sn) ==
    {[owner_type |-> k[1], inventory |-> k[2], container_id |-> k[3], slot_index |-> k[4],
      resource_id |-> k[5], amount |-> sn[k].amt, item_type |-> sn[k].itype] :
        k \in DOMAIN sn}

\* a slot as nmssavetool writes it, with the grid position and two flags
ObfuscatedSlot(rid, amount) ==
    JDict(<< <<K_Vn8, JDict(<< <<K_elv, JStr(S_Substance)>> >>)>>, <<K_b2n, JStr(rid)>>,
             <<K_1o9, amount>>, <<K_F9q, JInt(250)>>,
             <<K_3ZH, JDict(<< <<K_Qh, JInt(1)>>, <<K_XJ, JInt(2)>> >>)>>,
             <<<<98, 55, 54>>, JBool(TRUE)>>, <<<<101, 86, 107>>, JBool(FALSE)>> >>)

\* the same without the flags: no slot for looks_like_nmst_slot
FlaglessSlot(rid, amount) ==
    JDict(<< <<K_Vn8, JDict(<< <<K_elv, JStr(S_Substance)>> >>)>>, <<K_b2n, JStr(rid)>>,
             <<K_1o9, amount>>, <<K_F9q, JInt(250)>>,
             <<K_3ZH, JDict(<< <<K_Qh, JInt(1)>>, <<K_XJ, JInt(2)>> >>)>> >>)

\* a slot of a readable save with an explicit Index
IndexedSlot(rid, amount) ==
    JDict(<< <<<<73, 100>>, JStr(rid)>>, <<<<65, 109, 111, 117, 110, 116>>, amount>>,
             <<<<73, 110, 100, 101, 120>>, JDict(<< <<<<88>>, JInt(0)>>, <<<<89>>, JInt(3)>> >>)>> >>)

\* a slot of a readable save with an explicit Type
TypedSlot(rid, amount) ==
    JDict(<< <<<<84, 121, 112, 101>>, JDict(<< <<<<73, 110, 118, 101, 110, 116, 111, 114, 121, 84, 121, 112, 101>>, JStr(S_Technology)>> >>)>>,
             <<<<73, 100>>, JStr(rid)>>, <<<<65, 109, 111, 117, 110, 116>>, amount>> >>)

\* an id under Default and the amount as {"Value": n}
DefaultSlot(rid, amount) ==
    JDict(<< <<<<68, 101, 102, 97, 117, 108, 116>>, JDict(<< <<<<83, 121, 109, 98, 111, 108>>, JStr(rid)>> >>)>>,
             <<<<83, 116, 97, 99, 107, 83, 105, 122, 101>>, JDict(<< <<<<86, 97, 108, 117, 101>>, amount>> >>)>> >>)

\* resource ids: ^S19_X, ^S1_X, ^FUEL1, FUEL1, ^UI_POP, " ^S07_A "
ItemRids == {S_S19_X, <<94, 83, 49, 95, 88>>, <<94, 70, 85, 69, 76, 49>>, S_FUEL1, <<94, 85, 73, 95, 80, 79, 80>>, <<32, 94, 83, 48, 55, 95, 65, 32>>}

\* amounts: 5, 0, "12", true, null
ItemAmounts == {JInt(5), JInt(0), JStr(<<49, 50>>), JBool(TRUE), JNull}

ItemSlots ==
    UNION {{ObfuscatedSlot(r, a), FlaglessSlot(r, a), IndexedSlot(r, a), TypedSlot(r, a),
            DefaultSlot(r, a)} : r \in ItemRids, a \in ItemAmounts}

ItemLayouts == {"suit", "cargo", "storage", "plain", "tech"}

\* the slot every document holds next to the one that varies
FixedItem == ObfuscatedSlot(S_OXYGEN, JInt(40))

\* the document of a layout around slot x
ItemDoc(layout, x) ==
    CASE layout = "suit" ->
             JDict(<< <<<<80, 108, 97, 121, 101, 114, 83, 116, 97, 116, 101, 68, 97, 116, 97>>,
                        JDict(<< <<<<73, 110, 118, 101, 110, 116, 111, 114, 121>>, JDict(<< <<<<83, 108, 111, 116, 115>>, JList(<<x, FixedItem>>)>> >>)>> >>)>> >>)
      [] layout = "cargo" ->
             JDict(<< <<<<83, 104, 105, 112, 79, 119, 110, 101, 114, 115, 104, 105, 112>>,
                        JList(<<JDict(<< <<<<73, 110, 118, 101, 110, 116, 111, 114, 121, 95, 67, 97, 114, 103, 111>>, JList(<<FixedItem, x>>)>> >>)>>)>> >>)
      [] layout = "storage" ->
             JDict(<< <<<<83, 116, 111, 114, 97, 103, 101, 67, 111, 110, 116, 97, 105, 110, 101, 114, 51>>, JDict(<< <<<<83, 108, 111, 116, 115>>, JList(<<x, x>>)>> >>)>> >>)
      [] layout = "plain" -> JDict(<< <<<<120, 49, 50, 51, 52, 53>>, JList(<<x, FixedItem, x>>)>> >>)
      [] layout = "tech" -> JDict(<< <<<<84, 101, 99, 104>>, x>> >>)

ItemsInit ==
    \E layout \in ItemLayouts, x \in ItemSlots :
        /\ idoc = ItemDoc(layout, x)
        /\ yielded = <<>>
        /\ rows = {}
        /\ ipc = "walk"

\* walk_items(data, []) as main's loop draws it
ItemsWalk ==
    /\ ipc = "walk"
    /\ yielded' = walk_items(idoc, <<>>)
    /\ ipc' = "emit"
    /\ UNCHANGED <<idoc, rows>>
    /\ ItemsOnly

\* the loop over the tuples with fresh per_key_counter and seen, and the
\* rows emitted for seen
ItemsEmit ==
    /\ ipc = "emit"
    /\ rows' = ItemRows(ConsumeAll([counter |-> <<>>, seen |-> <<>>, key |-> <<>>],
                                   yielded, 1).seen)
    /\ ipc' = "done"
    /\ UNCHANGED <<idoc, yielded>>
    /\ ItemsOnly

ItemsNext == ItemsWalk \/ ItemsEmit


\* ------------------------------------------------------------------------
\* utils/paths.py, sections/indexers.py and sections/inventory_rollup.py
\* ------------------------------------------------------------------------

\* walk_with_path(obj, path): the (path, value) pairs it yields, in order;
\* a path holds keys (str) and list positions (int)
RECURSIVE walk_with_path(_, _)
RECURSIVE WalkBelow(_, _, _)
walk_with_path(obj, path) == <<[path |-> path, val |-> obj]>> \o WalkBelow(obj, path, 1)

\* what the loop over the children of a dict or a list yields from the i-th on
WalkBelow(obj, path, i) ==
    IF obj.t \notin {"dict", "list"} \/ i > Len(obj.v) THEN <<>>
    ELSE (IF obj.t = "dict"
          THEN walk_with_path(obj.v[i][2], Append(path, JStr(obj.v[i][1])))
          ELSE walk_with_path(obj.v[i], Append(path, JInt(i - 1))))
         \o WalkBelow(obj, path, i + 1)

\* get_at_path(obj, path) from the i-th step on; None is null
RECURSIVE GetFrom(_, _, _)
GetFrom(cur, path, i) ==
    IF i > Len(path) THEN cur
    ELSE IF cur.t = "dict" /\ path[i].t = "str" THEN GetFrom(JGet(cur, path[i].v), path, i + 1)
    ELSE IF /\ cur.t = "list" /\ path[i].t = "int"
            /\ 0 <= path[i].v /\ path[i].v < Len(cur.v)
    THEN GetFrom(cur.v[path[i].v + 1], path, i + 1)
    ELSE JNull

get_at_path(obj, path) == GetFrom(obj, path, 1)

\* p.replace(".", "\\.")
RECURSIVE EscapeDots(_)
EscapeDots(s) ==
    IF s = <<>> THEN <<>>
    ELSE (IF s[1] = 46 THEN <<92, 46>> ELSE <<s[1]>>) \o EscapeDots(Tail(s))

\* s.replace("\\.", ".")
RECURSIVE UnescapeDots(_)
UnescapeDots(s) ==
    IF s = <<>> THEN <<>>
    ELSE IF StartsWith(s, <<92, 46>>) THEN <<46>> \o UnescapeDots(From(s, 3))
    ELSE <<s[1]>> \o UnescapeDots(Tail(s))

\* one element of a path as path_to_string prints it
PathPart(p) == IF p.t = "int" THEN <<91>> \o IntText(p.v) \o <<93>> ELSE EscapeDots(p.v)

path_to_string(path) == JoinWith([i \in DOMAIN path |-> PathPart(path[i])], <<46>>)

\* the loop that cuts a printed path at its unescaped dots: the tokens left
\* when s has been read up to position i with cur, esc and toks
RECURSIVE SplitPath(_, _, _, _, _)
SplitPath(s, i, cur, esc, toks) ==
    IF i > Len(s) THEN (IF cur # <<>> THEN Append(toks, cur) ELSE toks)
    ELSE IF s[i] = 92 THEN SplitPath(s, i + 1, Append(cur, 92), ~esc, toks)
    ELSE IF s[i] = 46 /\ ~esc THEN SplitPath(s, i + 1, <<>>, FALSE, Append(toks, cur))
    ELSE SplitPath(s, i + 1, Append(cur, s[i]), FALSE, toks)

\* the parts of one token: "base[n]" gives base (when not empty) and n, any
\* other token gives itself; the index texts are those path_to_string writes
TokenParts(tok) ==
    IF tok # <<>> /\ tok[Len(tok)] = 93 /\ RFindByte(tok, 91) # 0
    THEN (IF RFindByte(tok, 91) > 1
          THEN <<JStr(UnescapeDots(SubSeq(tok, 1, RFindByte(tok, 91) - 1)))>> ELSE <<>>)
         \o <<JInt(DigitsToInt(SubSeq(tok, RFindByte(tok, 91) + 1, Len(tok) - 1), 1, 0))>>
    ELSE <<JStr(UnescapeDots(tok))>>

RECURSIVE PartsOf(_, _)
PartsOf(tokens, i) ==
    IF i > Len(tokens) THEN <<>> ELSE TokenParts(tokens[i]) \o PartsOf(tokens, i + 1)

parse_path_string(s) == PartsOf(SplitPath(s, 1, <<>>, FALSE, <<>>), 1)

\* isinstance(val, expect_type) for expect_type dict or list
IsOfType(val, expect_type) == val.t = expect_type

\* whether the pair at path is a dict entry whose key holds one of needles
\* and whose value has the expected type (the tests have no effects: the
\* one that looks the parent up comes last)
KeyContains(obj, path, val, needles, expect_type) ==
    /\ path # <<>>
    /\ path[Len(path)].t = "str"
    /\ IsOfType(val, expect_type)
    /\ \E n \in Range(needles) : Contains(Lower(path[Len(path)].v), Lower(n))
    /\ get_at_path(obj, SubSeq(path, 1, Len(path) - 1)).t = "dict"

\* path_to_string of every pair
PrintedPaths(pairs) == [i \in DOMAIN pairs |-> path_to_string(pairs[i].path)]

\* the printed paths of the pairs that KeyContains accepts, in order
KeyHits(obj, pairs, needles, expect_type) ==
    PrintedPaths(SelectSeq(pairs,
        LAMBDA p : KeyContains(obj, p.path, p.val, needles, expect_type)))

_find_all_by_key_contains(obj, needles, expect_type) ==
    KeyHits(obj, walk_with_path(obj, <<>>), needles, expect_type)

\* _dedupe(seq): the first occurrence of each string, in order
RECURSIVE DedupeFrom(_, _, _)
DedupeFrom(seq, i, out) ==
    IF i > Len(seq) THEN out
    ELSE DedupeFrom(seq, i + 1, IF seq[i] \in Range(out) THEN out ELSE Append(out, seq[i]))

_dedupe(seq) == DedupeFrom(seq, 1, <<>>)

\* a non-empty list of dicts
IsDictList(v) == v.t = "list" /\ v.v # <<>> /\ \A i \in DOMAIN v.v : v.v[i].t = "dict"

\* an inventory by shape: a list of 10 to 250 dicts
LooksLikeSlots(v) == IsDictList(v) /\ 10 <= Len(v.v) /\ Len(v.v) <= 250

\* whether the "inventories by shape" loop appends the path of val
IsInventoryNode(val) ==
    IF val.t = "dict" THEN \E i \in DOMAIN val.v : LooksLikeSlots(val.v[i][2])
    ELSE LooksLikeSlots(val)

\* the printed paths the "inventories by shape" loop appends, in order
InventoryHits(pairs) == PrintedPaths(SelectSeq(pairs, LAMBDA p : IsInventoryNode(p.val)))

\* find_sections(obj): the index, every list deduplicated
find_sections(obj) ==
    [inventories |-> _dedupe(InventoryHits(walk_with_path(obj, <<>>))),
     milestones |-> _dedupe(_find_all_by_key_contains(obj, <<<<77, 105, 108, 101, 115, 116, 111, 110, 101>>, <<74, 111, 117, 114, 110, 101, 121>>>>, "list")),
     bases |-> _dedupe(_find_all_by_key_contains(obj, <<<<66, 97, 115, 101>>, <<66, 97, 115, 101, 115>>>>, "list")),
     teleporter_history |->
         _dedupe(_find_all_by_key_contains(obj, <<<<84, 101, 108, 101, 112, 111, 114, 116>>, <<84, 101, 108, 101, 112, 111, 114, 116, 101, 114>>>>, "list")),
     companions |->
         _dedupe(_find_all_by_key_contains(obj, <<<<67, 111, 109, 112, 97, 110, 105, 111, 110>>, <<80, 101, 116>>, <<67, 114, 101, 97, 116, 117, 114, 101>>>>, "list")),
     difficulty |->
         _dedupe(_find_all_by_key_contains(obj, <<<<68, 105, 102, 102, 105, 99, 117, 108, 116, 121, 83, 101, 116, 116, 105, 110, 103>>, <<68, 105, 102, 102, 105, 99, 117, 108, 116, 121, 80, 114, 101, 115, 101, 116>>>>,
                                           "dict")),
     season_data |-> _dedupe(_find_all_by_key_contains(obj, <<<<83, 101, 97, 115, 111, 110, 68, 97, 116, 97>>>>, "dict"))]


CATS ==
    << <<<<69, 120, 111, 115, 117, 105, 116>>, <<<<115, 117, 105, 116>>, <<101, 120, 111>>, <<101, 120, 111, 115, 117, 105, 116>>>> >>,
       <<<<83, 104, 105, 112>>, <<<<115, 104, 105, 112>>, <<115, 116, 97, 114, 115, 104, 105, 112>>, <<102, 105, 103, 104, 116, 101, 114>>, <<115, 104, 117, 116, 116, 108, 101>>, <<104, 97, 117, 108, 101, 114>>, <<101, 120, 111, 116, 105, 99>>, <<115, 111, 108, 97, 114>>,
                   <<105, 110, 116, 101, 114, 99, 101, 112, 116, 111, 114>>, <<108, 105, 118, 105, 110, 103>>>> >>,
       <<<<77, 117, 108, 116, 105, 84, 111, 111, 108>>, <<<<109, 117, 108, 116, 105, 116, 111, 111, 108>>, <<109, 117, 108, 116, 105>>, <<119, 101, 97, 112, 111, 110>>, <<116, 111, 111, 108>>>> >>,
       <<<<70, 114, 101, 105, 103, 104, 116, 101, 114>>, <<<<102, 114, 101, 105, 103, 104, 116, 101, 114>>, <<99, 97, 112, 105, 116, 97, 108>>, <<99, 97, 114, 114, 105, 101, 114>>>> >>,
       <<<<69, 120, 111, 99, 114, 97, 102, 116>>, <<<<118, 101, 104, 105, 99, 108, 101>>, <<101, 120, 111, 99, 114, 97, 102, 116>>, <<109, 105, 110, 111, 116, 97, 117, 114>>, <<109, 101, 99, 104>>, <<110, 97, 117, 116, 105, 108, 111, 110>>, <<114, 111, 97, 109, 101, 114>>,
                       <<110, 111, 109, 97, 100>>, <<99, 111, 108, 111, 115, 115, 117, 115>>, <<112, 105, 108, 103, 114, 105, 109>>, <<98, 105, 107, 101>>>> >>,
       <<<<83, 116, 111, 114, 97, 103, 101>>, <<<<115, 116, 111, 114, 97, 103, 101>>, <<99, 111, 110, 116, 97, 105, 110, 101, 114>>, <<99, 104, 101, 115, 116>>, <<118, 97, 117, 108, 116>>, <<119, 97, 114, 100, 114, 111, 98, 101>>>> >> >>

MIN_SLOTS == 5

MAX_SLOTS == 120

NON_INV_KEYS == {<<80, 111, 115, 105, 116, 105, 111, 110>>, <<79, 98, 106, 101, 99, 116, 73, 68>>, <<71, 97, 108, 97, 99, 116, 105, 99, 65, 100, 100, 114, 101, 115, 115>>, <<84, 105, 109, 101, 115, 116, 97, 109, 112>>, <<85, 115, 101, 114, 68, 97, 116, 97>>}

INV_KEYS == {<<73, 100>>, <<65, 109, 111, 117, 110, 116>>, <<86, 97, 108, 117, 101>>}

\* the first category, from the i-th on, one of whose needles is in p
RECURSIVE CategoryFrom(_, _)
CategoryFrom(p, i) ==
    IF i > Len(CATS) THEN <<83, 116, 111, 114, 97, 103, 101>>
    ELSE IF \E j \in DOMAIN CATS[i][2] : Contains(p, CATS[i][2][j]) THEN CATS[i][1]
    ELSE CategoryFrom(p, i + 1)

_guess_category_from_path(path) == CategoryFrom(Lower(path), 1)

\* ".".join(toks[:-1]) for more than one token, else the only token or ""
ParentOfTokens(toks) ==
    IF Len(toks) > 1 THEN JoinWith(SubSeq(toks, 1, Len(toks) - 1), <<46>>)
    ELSE IF toks # <<>> THEN toks[1]
    ELSE <<>>

\* _parent_path_str cuts path_str with the loop of parse_path_string
_parent_path_str(path_str) == ParentOfTokens(SplitPath(path_str, 1, <<>>, FALSE, <<>>))

_slot_keys(node) ==
    IF node.t = "list" /\ node.v # <<>> /\ node.v[1].t = "dict"
    THEN Range(DictKeys(node.v[1].v)) ELSE {}

_is_inventory_slot_list(node) ==
    /\ IsDictList(node)
    /\ Len(node.v) >= MIN_SLOTS
    /\ Len(node.v) <= MAX_SLOTS
    /\ _slot_keys(node) \cap NON_INV_KEYS = {}
    /\ _slot_keys(node) \cap INV_KEYS # {}

\* by_parent.setdefault(parent, []).append(s) on the pairs of by_parent
AddChild(by_parent, parent, s) ==
    IF DictHas(by_parent, parent)
    THEN DictSet(by_parent, parent, Append(DictAt(by_parent, parent), s))
    ELSE DictSet(by_parent, parent, <<s>>)

\* by_parent after the loop over inv_paths from the i-th path on; a path
\* whose parent is "" is left out
RECURSIVE GroupByParent(_, _, _)
GroupByParent(inv_paths, i, by_parent) ==
    IF i > Len(inv_paths) THEN by_parent
    ELSE GroupByParent(inv_paths, i + 1,
             IF _parent_path_str(inv_paths[i]) = <<>> THEN by_parent
             ELSE AddChild(by_parent, _parent_path_str(inv_paths[i]), inv_paths[i]))

\* good_children: the children, from the i-th on, whose node is a slot list
\* (child_types is empty: no child is tagged)
RECURSIVE GoodChildren(_, _, _)
GoodChildren(data, children, i) ==
    IF i > Len(children) THEN <<>>
    ELSE (IF _is_inventory_slot_list(get_at_path(data, parse_path_string(children[i])))
          THEN <<children[i]>> ELSE <<>>)
         \o GoodChildren(data, children, i + 1)

\* the sum of len(node) over the good children from the i-th on
RECURSIVE SlotsOf(_, _, _)
SlotsOf(data, good, i) ==
    IF i > Len(good) THEN 0
    ELSE Len(get_at_path(data, parse_path_string(good[i])).v) + SlotsOf(data, good, i + 1)

ZeroBucket == [containers |-> 0, general |-> 0, tech |-> 0, cargo |-> 0, total |-> 0]

\* a bucket after one more container of g general slots
Counted(b, g) ==
    [containers |-> b.containers + 1, general |-> b.general + g, tech |-> b.tech,
     cargo |-> b.cargo, total |-> b.total + g]

\* the state of the loop over by_parent after a parent with its good
\* children: counted when there are one to three of them
AfterParent(acc, data, parent, good) ==
    IF Len(good) < 1 \/ Len(good) > 3 \/ SlotsOf(data, good, 1) = 0 THEN acc
    ELSE [by_cat |->
              [c \in DOMAIN acc.by_cat \cup {_guess_category_from_path(parent)} |->
                  IF c = _guess_category_from_path(parent)
                  THEN Counted(DictGet(acc.by_cat, c, ZeroBucket), SlotsOf(data, good, 1))
                  ELSE acc.by_cat[c]],
          totals |-> Counted(acc.totals, SlotsOf(data, good, 1)),
          containers |-> Append(acc.containers,
                                [parent |-> parent, children |-> good,
                                 total |-> SlotsOf(data, good, 1)])]

\* the loop over by_parent.items() from the i-th parent on
RECURSIVE RollupLoop(_, _, _, _)
RollupLoop(acc, data, by_parent, i) ==
    IF i > Len(by_parent) THEN acc
    ELSE RollupLoop(AfterParent(acc, data, by_parent[i][1],
                                GoodChildren(data, by_parent[i][2], 1)),
                    data, by_parent, i + 1)

\* by_cat.setdefault(name, zeros) for every category
WithAllCategories(by_cat) ==
    [c \in DOMAIN by_cat \cup {CATS[i][1] : i \in DOMAIN CATS} |->
        DictGet(by_cat, c, ZeroBucket)]

\* compute_inventory_rollup(data, index) with no categories and no
\* child_types; containers lists the parents the loop counted
compute_inventory_rollup(data, idx) ==
    RollupLoop([by_cat |-> <<>>, totals |-> ZeroBucket, containers |-> <<>>],
               data, GroupByParent(idx.inventories, 1, <<>>), 1)

\* the most slot arrays under the parent
MaxLists == 4

\* the lengths of the slot arrays
SlotLengths == {10, 20, 48}

\* an item slot, and an element that holds a position
RollupSlot == JDict(<< <<<<73, 100>>, JStr(S_OXYGEN)>>, <<<<65, 109, 111, 117, 110, 116>>, JInt(1)>> >>)

PlacedThing == JDict(<< <<<<73, 100>>, JStr(S_OXYGEN)>>, <<<<80, 111, 115, 105, 116, 105, 111, 110>>, JInt(1)>> >>)

\* the keys of the slot arrays: "a", "b", ...
ListKey(i) == <<96 + i>>

\* the parent object: one slot array per length, and with extra "placed" a
\* list of ten elements that hold a position
ParentObject(lens, extra) ==
    JDict([i \in DOMAIN lens |-> <<ListKey(i), JList([j \in 1..lens[i] |-> RollupSlot])>>]
          \o (IF extra = "placed"
              THEN << <<<<116, 104, 105, 110, 103, 115>>, JList([j \in 1..10 |-> PlacedThing])>> >> ELSE <<>>))

RollupLayouts == {"root", "key", "nested", "item", "dotted"}

\* the document that holds the parent object p at the place of the layout
RollupDoc(layout, p) ==
    CASE layout = "root" -> p
      [] layout = "key" -> JDict(<< <<<<112>>, p>>, <<<<110>>, JInt(1)>> >>)
      [] layout = "nested" -> JDict(<< <<<<112>>, JDict(<< <<<<113>>, p>> >>)>> >>)
      [] layout = "item" -> JDict(<< <<<<115, 104, 105, 112, 115>>, JList(<<p>>)>> >>)
      [] layout = "dotted" -> JDict(<< <<<<112, 46, 120>>, p>> >>)

\* the path of the parent object in the document of the layout
ParentPath(layout) ==
    CASE layout = "root" -> <<>>
      [] layout = "key" -> <<JStr(<<112>>)>>
      [] layout = "nested" -> <<JStr(<<112>>), JStr(<<113>>)>>
      [] layout = "item" -> <<JStr(<<115, 104, 105, 112, 115>>), JInt(0)>>
      [] layout = "dotted" -> <<JStr(<<112, 46, 120>>)>>

RollupInit ==
    \E layout \in RollupLayouts, k \in 1..MaxLists, extra \in {"none", "placed"} :
        \E lens \in [1..k -> SlotLengths] :
            /\ shape = [layout |-> layout, lens |-> lens, extra |-> extra]
            /\ sdoc = RollupDoc(layout, ParentObject(lens, extra))
            /\ index = <<>>
            /\ rollup = <<>>
            /\ containers = <<>>
            /\ spc2 = "index"

\* index = find_sections(data)
FindSections ==
    /\ spc2 = "index"
    /\ index' = find_sections(sdoc)
    /\ spc2' = "rollup"
    /\ UNCHANGED <<sdoc, shape, rollup, containers>>
    /\ RollupOnly

\* what compute_inventory_rollup returns for the result of its loop
Returned(acc) ==
    /\ rollup' = [by_category |-> WithAllCategories(acc.by_cat), totals |-> acc.totals]
    /\ containers' = acc.containers

\* compute_inventory_rollup(data, index)
Rollup ==
    /\ spc2 = "rollup"
    /\ Returned(compute_inventory_rollup(sdoc, index))
    /\ spc2' = "done"
    /\ UNCHANGED <<sdoc, shape, index>>
    /\ RollupOnly

RollupNext == FindSections \/ Rollup

\* ------------------------------------------------------------------------
\* db_import_initial main: the statement stream, and the store it is fed to
\* ------------------------------------------------------------------------

\* the keys of seen in the order seen.items() gives them: that of their
\* first insertion by the loop over walk_items
RECURSIVE SeenOrder(_, _, _, _)
SeenOrderWith(st, tuples, i, acc) ==
    SeenOrder(st, tuples, i + 1,
              IF \E j \in DOMAIN acc : acc[j] = st.key THEN acc ELSE Append(acc, st.key))

SeenOrder(st, tuples, i, acc) ==
    IF i > Len(tuples) THEN acc
    ELSE SeenOrderWith(Consume(st, tuples[i]), tuples, i, acc)

\* "INSERT INTO nms_snapshots (...) VALUES (...) ON DUPLICATE KEY UPDATE ...;"
SnapshotInsert(entry) ==
    [op |-> "INSERT INTO nms_snapshots", source_path |-> entry.source_path,
     save_root |-> entry.save_root, source_mtime |-> entry.source_mtime,
     decoded_mtime |-> entry.decoded_mtime, json_sha256 |-> entry.json_sha256]

\* "INSERT INTO nms_items (...) VALUES (@sid, ...) ON DUPLICATE KEY UPDATE ...;"
ItemInsert(skey, val) ==
    [op |-> "INSERT INTO nms_items", owner_type |-> skey[1], inventory |-> skey[2],
     container_id |-> skey[3], slot_index |-> skey[4], resource_id |-> skey[5],
     amount |-> val.amt, item_type |-> val.itype]

\* the statements for seen, one per entry in the order of order
ItemInserts(sn, order) == [i \in 1..Len(order) |-> ItemInsert(order[i], sn[order[i]])]

\* the loop over walk_items and the loop over seen.items(), for one snapshot
StartOfLoop == [counter |-> <<>>, seen |-> <<>>, key |-> <<>>]

ItemsOfSnapshot(tuples) ==
    ItemInserts(ConsumeAll(StartOfLoop, tuples, 1).seen, SeenOrder(StartOfLoop, tuples, 1, <<>>))

\* what main prints for one entry of the manifest: nothing without
\* source_path or out_json, no items when read_json_lenient raises
EntryStatements(entry) ==
    IF entry.source_path = <<>> \/ entry.out_json = <<>> THEN <<>>
    ELSE <<SnapshotInsert(entry), [op |-> "SET @sid"]>>
             \o (IF entry.data.ok THEN ItemsOfSnapshot(walk_items(entry.data.v, <<>>))
                 ELSE <<>>)

RECURSIVE ManifestStatements(_, _)
ManifestStatements(items_meta, i) ==
    IF i > Len(items_meta) THEN <<>>
    ELSE EntryStatements(items_meta[i]) \o ManifestStatements(items_meta, i + 1)

\* everything main prints on stdout when --dry-run is not given
db_import_initial(items_meta) ==
    <<[op |-> "SET NAMES"], [op |-> "SET time_zone"], [op |-> "START TRANSACTION"]>>
        \o ManifestStatements(items_meta, 1) \o <<[op |-> "COMMIT"]>>

\* the store.  The unique key of nms_snapshots, by which ON DUPLICATE KEY
\* finds the row of a snapshot
SnapshotKey(s) == <<s.source_path, s.source_mtime>>

\* the unique key of nms_items: the slot in its snapshot, with or without the
\* resource
ItemKey(with_rid, snapshot_id, s) ==
    IF with_rid
    THEN <<snapshot_id, s.owner_type, s.inventory, s.container_id, s.slot_index, s.resource_id>>
    ELSE <<snapshot_id, s.owner_type, s.inventory, s.container_id, s.slot_index>>

\* an update that stores the new amount
LatestAmount(a, b) == b

\* an update that adds the new amount to the row's
SumOfAmounts(a, b) == a + b

\* "amount = GREATEST(nms_items.amount, VALUES(amount))"
GREATEST(a, b) == Max2(a, b)

\* the row of nms_snapshots a statement inserts
SnapshotRow(s, id) ==
    [snapshot_id |-> id, source_path |-> s.source_path, save_root |-> s.save_root,
     source_mtime |-> s.source_mtime, decoded_mtime |-> s.decoded_mtime,
     json_sha256 |-> s.json_sha256]

\* "ON DUPLICATE KEY UPDATE snapshot_id = LAST_INSERT_ID(snapshot_id),
\*  decoded_mtime = VALUES(decoded_mtime), json_sha256 = VALUES(json_sha256)"
SnapshotOnDuplicate(row, s) ==
    [row EXCEPT !.decoded_mtime = s.decoded_mtime, !.json_sha256 = s.json_sha256]

\* the row of nms_items a statement inserts
ItemRow(s, snapshot_id) ==
    [snapshot_id |-> snapshot_id, owner_type |-> s.owner_type, inventory |-> s.inventory,
     container_id |-> s.container_id, slot_index |-> s.slot_index,
     resource_id |-> s.resource_id, amount |-> s.amount, item_type |-> s.item_type]

\* "ON DUPLICATE KEY UPDATE resource_id = VALUES(resource_id),
\*  amount = GREATEST(nms_items.amount, VALUES(amount)), item_type = VALUES(item_type)"
ItemOnDuplicate(row, s) ==
    [row EXCEPT !.resource_id = s.resource_id, !.amount = GREATEST(row.amount, s.amount),
                !.item_type = s.item_type]

\* a table after an insert under key k
Upsert(table, k, inserted, updated) ==
    [x \in DOMAIN table \cup {k} |->
        IF x # k THEN table[x] ELSE IF k \in DOMAIN table THEN updated ELSE inserted]

\* the tables as a record
Tables == [snapshots |-> nms_snapshots, items |-> nms_items]

\* the store executes the insert of a snapshot
ExecSnapshot(s) ==
    /\ nms_snapshots' =
           Upsert(nms_snapshots, SnapshotKey(s), SnapshotRow(s, next_id),
                  IF SnapshotKey(s) \in DOMAIN nms_snapshots
                  THEN SnapshotOnDuplicate(nms_snapshots[SnapshotKey(s)], s) ELSE <<>>)
    /\ last_id' = IF SnapshotKey(s) \in DOMAIN nms_snapshots
                  THEN nms_snapshots[SnapshotKey(s)].snapshot_id ELSE next_id
    /\ next_id' = IF SnapshotKey(s) \in DOMAIN nms_snapshots THEN next_id ELSE next_id + 1
    /\ UNCHANGED <<nms_items, sid, durable>>

\* the store executes the insert of an item
ExecItem(s) ==
    /\ nms_items' =
           Upsert(nms_items, ItemKey(uk_rid, sid, s), ItemRow(s, sid),
                  IF ItemKey(uk_rid, sid, s) \in DOMAIN nms_items
                  THEN ItemOnDuplicate(nms_items[ItemKey(uk_rid, sid, s)], s) ELSE <<>>)
    /\ UNCHANGED <<nms_snapshots, sid, last_id, next_id, durable>>

\* the longest manifest
MaxEntries == 2

\* the paths a, b and c; the times 1 and 2
P_a == <<97>>

P_b == <<98>>

P_c == <<99>>

T_1 == <<49>>

T_2 == <<50>>

S_FUEL1C == <<94, 70, 85, 69, 76, 49>>

\* a decoded save with the slots of one inventory
SaveOf(slots) ==
    JDict(<< <<<<80, 108, 97, 121, 101, 114, 83, 116, 97, 116, 101, 68, 97, 116, 97>>,
               JDict(<< <<<<73, 110, 118, 101, 110, 116, 111, 114, 121>>, JDict(<< <<<<83, 108, 111, 116, 115>>, JList(slots)>> >>)>> >>)>> >>)

\* two resources in the same grid position
SaveTwoInOneSlot ==
    SaveOf(<<IndexedSlot(S_FUEL1C, JInt(5)), IndexedSlot(S_OXYGEN, JInt(3))>>)

\* the same resource in the same position with two amounts, around another
SaveSameTwice ==
    SaveOf(<<IndexedSlot(S_OXYGEN, JInt(3)), IndexedSlot(S_FUEL1C, JInt(5)),
             IndexedSlot(S_OXYGEN, JInt(7))>>)

\* two slots without a grid position
SaveNoIndex == SaveOf(<<TypedSlot(S_FUEL1C, JInt(5)), TypedSlot(S_FUEL1C, JInt(5))>>)

ManifestEntry(path, mtime, dec, out, data) ==
    [source_path |-> path, save_root |-> P_a, source_mtime |-> mtime, decoded_mtime |-> dec,
     out_json |-> out, json_sha256 |-> dec, data |-> data]

\* the entries a manifest is made of: two of the same source with another
\* decoded JSON, one whose JSON cannot be read, one without source_path
ManifestEntries ==
    {ManifestEntry(P_a, T_1, T_1, P_a, Some(SaveTwoInOneSlot)),
     ManifestEntry(P_a, T_1, T_2, P_b, Some(SaveSameTwice)),
     ManifestEntry(P_b, T_1, T_1, P_b, Some(SaveSameTwice)),
     ManifestEntry(P_b, T_2, T_2, P_c, None),
     ManifestEntry(<<>>, T_1, T_1, P_c, Some(SaveNoIndex)),
     ManifestEntry(P_c, T_1, T_1, P_c, Some(SaveNoIndex))}

Manifests == UNION {[1..n -> ManifestEntries] : n \in 1..MaxEntries}

StoreInit ==
    /\ manifest \in Manifests
    /\ uk_rid \in BOOLEAN
    /\ stream = <<>> /\ run = 1 /\ apos = 0
    /\ nms_snapshots = <<>> /\ nms_items = <<>>
    /\ sid = 0 /\ last_id = 0 /\ next_id = 1
    /\ durable = [snapshots |-> <<>>, items |-> <<>>]
    /\ once = <<>>
    /\ mpc = "emit"

\* a run of db_import_initial over the manifest, its output piped to the store
ImportRun ==
    /\ mpc = "emit"
    /\ stream' = db_import_initial(manifest)
    /\ apos' = 0
    /\ mpc' = "apply"
    /\ UNCHANGED <<manifest, run, nms_snapshots, nms_items, sid, last_id, next_id, durable,
                   once, uk_rid>>
    /\ StoreOnly

\* the store executes the next statement of the stream
ExecSet(s) ==
    /\ s.op \in {"SET NAMES", "SET time_zone"}
    /\ UNCHANGED <<nms_snapshots, nms_items, sid, last_id, next_id, durable>>

\* START TRANSACTION commits what is open, COMMIT what the transaction did
ExecCommit(s) ==
    /\ s.op \in {"START TRANSACTION", "COMMIT"}
    /\ durable' = Tables
    /\ UNCHANGED <<nms_snapshots, nms_items, sid, last_id, next_id>>

ExecSetSid(s) ==
    /\ s.op = "SET @sid"
    /\ sid' = last_id
    /\ UNCHANGED <<nms_snapshots, nms_items, last_id, next_id, durable>>

Execute ==
    /\ mpc = "apply"
    /\ apos < Len(stream)
    /\ \/ ExecSet(stream[apos + 1])
       \/ ExecCommit(stream[apos + 1])
       \/ stream[apos + 1].op = "INSERT INTO nms_snapshots" /\ ExecSnapshot(stream[apos + 1])
       \/ ExecSetSid(stream[apos + 1])
       \/ stream[apos + 1].op = "INSERT INTO nms_items" /\ ExecItem(stream[apos + 1])
    /\ apos' = apos + 1
    /\ UNCHANGED <<manifest, stream, run, once, uk_rid, mpc>>
    /\ StoreOnly

\* an insert fails (the connection is lost, the server stops): the open
\* transaction is rolled back and the rest of the stream is not executed
ExecuteFails ==
    /\ mpc = "apply"
    /\ apos < Len(stream)
    /\ stream[apos + 1].op \in {"INSERT INTO nms_snapshots", "INSERT INTO nms_items"}
    /\ nms_snapshots' = durable.snapshots
    /\ nms_items' = durable.items
    /\ mpc' = "failed"
    /\ UNCHANGED <<manifest, stream, run, apos, sid, last_id, next_id, durable, once, uk_rid>>
    /\ StoreOnly

\* the stream of the first run is through: the same manifest is imported again
SecondRun ==
    /\ mpc = "apply"
    /\ apos = Len(stream)
    /\ run = 1
    /\ once' = Tables
    /\ run' = 2
    /\ mpc' = "emit"
    /\ UNCHANGED <<manifest, stream, apos, nms_snapshots, nms_items, sid, last_id, next_id,
                   durable, uk_rid>>
    /\ StoreOnly

\* the stream of the second run is through
ImportDone ==
    /\ mpc = "apply"
    /\ apos = Len(stream)
    /\ run = 2
    /\ mpc' = "done"
    /\ UNCHANGED <<manifest, stream, run, apos, nms_snapshots, nms_items, sid, last_id,
                   next_id, durable, once, uk_rid>>
    /\ StoreOnly

StoreNext == ImportRun \/ Execute \/ ExecuteFails \/ SecondRun \/ ImportDone

\* ------------------------------------------------------------------------
\* coalesce_sessions
\* ------------------------------------------------------------------------

\* sorted(rows, key=lambda x: x["ts"]): rows with the same ts keep their order
RECURSIVE InsertByTs(_, _, _)
InsertByTs(sorted, r, i) ==
    IF i > Len(sorted) THEN Append(sorted, r)
    ELSE IF sorted[i].ts > r.ts
         THEN SubSeq(sorted, 1, i - 1) \o <<r>> \o SubSeq(sorted, i, Len(sorted))
         ELSE InsertByTs(sorted, r, i + 1)

RECURSIVE SortedByTs(_, _, _)
SortedByTs(rows_, i, acc) ==
    IF i > Len(rows_) THEN acc ELSE SortedByTs(rows_, i + 1, InsertByTs(acc, rows_[i], 1))

\* a gap that starts a new session although it equals the threshold
GapBelow(gap, max_gap_sec) == gap < max_gap_sec

\* "if gap <= max_gap_sec"
GapWithin(gap, max_gap_sec) == gap <= max_gap_sec

\* out with r appended to its last session
AppendToLast(out, r) == [out EXCEPT ![Len(out)] = Append(out[Len(out)], r)]

\* the loop of ledger_core.coalesce_sessions from the i-th sorted row on; prev
\* is the row before
RECURSIVE CoalesceLoop(_, _, _, _)
CoalesceLoop(sorted, i, out, max_gap_sec) ==
    IF i > Len(sorted) THEN out
    ELSE IF out = <<>> THEN CoalesceLoop(sorted, i + 1, <<<<sorted[i]>>>>, max_gap_sec)
    ELSE IF GapWithin(sorted[i].ts - sorted[i - 1].ts, max_gap_sec)
         THEN CoalesceLoop(sorted, i + 1, AppendToLast(out, sorted[i]), max_gap_sec)
         ELSE CoalesceLoop(sorted, i + 1, Append(out, <<sorted[i]>>), max_gap_sec)

\* ledger_core.coalesce_sessions(rows, max_gap_sec)
coalesce_sessions(rows_, max_gap_sec) ==
    CoalesceLoop(SortedByTs(rows_, 1, <<>>), 1, <<>>, max_gap_sec)

\* the loop of the coalesce_sessions of nms_resource_ledger_v3 from the i-th
\* snapshot on: grp is the open group, of which only the last is kept
RECURSIVE KeepLastLoop(_, _, _, _, _)
KeepLastLoop(snapshots, i, grp, out, session_minutes) ==
    IF i > Len(snapshots) THEN Append(out, grp[Len(grp)])
    ELSE IF (snapshots[i].ts - grp[Len(grp)].ts) <= 60 * session_minutes
         THEN KeepLastLoop(snapshots, i + 1, Append(grp, snapshots[i]), out, session_minutes)
         ELSE KeepLastLoop(snapshots, i + 1, <<snapshots[i]>>, Append(out, grp[Len(grp)]),
                           session_minutes)

\* nms_resource_ledger_v3.coalesce_sessions(snapshots, session_minutes)
coalesce_sessions_v3(snapshots, session_minutes) ==
    IF session_minutes <= 0 \/ Len(snapshots) <= 1 THEN snapshots
    ELSE KeepLastLoop(snapshots, 2, <<snapshots[1]>>, <<>>, session_minutes)

\* the most rows handed in
MaxRows == 3

\* timestamps in seconds, and thresholds
RowTimes == {0, 60, 61, 200}

Thresholds == {-1, 0, 1, 60, 139, 140}

\* rows in every order; row is the place of the row in the input
RowsOf(times) == [i \in DOMAIN times |-> [ts |-> times[i], row |-> i]]

SessInit ==
    /\ \E n \in 0..MaxRows : \E times \in [1..n -> RowTimes] : srows = RowsOf(times)
    /\ max_gap \in Thresholds
    /\ sessions = <<>>
    /\ kept = <<>>
    /\ cpc = "call"

\* both functions on the same rows; the threshold of the second is in minutes
SessCall ==
    /\ cpc = "call"
    /\ sessions' = coalesce_sessions(srows, max_gap)
    /\ kept' = coalesce_sessions_v3(srows, max_gap)
    /\ cpc' = "done"
    /\ UNCHANGED <<srows, max_gap>>
    /\ SessOnly

SessNext == SessCall

\* ------------------------------------------------------------------------
\* canonical_ts_from_file
\* ------------------------------------------------------------------------

\* s with every c replaced by the text r: str.replace for a single character
RECURSIVE ReplaceChar(_, _, _)
ReplaceChar(s, c, r) ==
    IF s = <<>> THEN <<>>
    ELSE (IF Head(s) = c THEN r ELSE <<Head(s)>>) \o ReplaceChar(Tail(s), c, r)

\* s.split(c) for a single character
RECURSIVE SplitChar(_, _, _)
SplitChar(s, c, part) ==
    IF s = <<>> THEN <<part>>
    ELSE IF Head(s) = c THEN <<part>> \o SplitChar(Tail(s), c, <<>>)
    ELSE SplitChar(Tail(s), c, Append(part, Head(s)))

\* s[:n]
Prefix(s, n) == SubSeq(s, 1, IF Len(s) < n THEN Len(s) ELSE n)

\* the number written with n digits at s[i], or -1
Digits(s, i, n) ==
    IF i + n - 1 <= Len(s) /\ \A j \in i..(i + n - 1) : IsDigit(s[j])
    THEN DigitsToInt(SubSeq(s, i, i + n - 1), 1, 0) ELSE -1

IsLeap(y) == y % 4 = 0 /\ (y % 100 # 0 \/ y % 400 = 0)

DaysIn(y, m) ==
    IF m = 2 THEN (IF IsLeap(y) THEN 29 ELSE 28) ELSE IF m \in {4, 6, 9, 11} THEN 30 ELSE 31

\* the datetime of the fields, if there is such a date and time
DateTime(y, mo, d, h, mi, s) ==
    IF y >= 1 /\ mo \in 1..12 /\ d >= 1 /\ d <= DaysIn(y, mo) /\ h \in 0..23 /\ mi \in 0..59
       /\ s \in 0..59
    THEN Some(<<y, mo, d, h, mi, s>>) ELSE None

\* a text of the shape YYYY?MM?DD?HH:MM:SS with zero-padded fields, the date
\* fields parted by dsep and date and time by one of tseps
DateTimeOfShape(s, dsep, tseps) ==
    IF Len(s) = 19 /\ s[5] = dsep /\ s[8] = dsep /\ s[11] \in tseps /\ s[14] = 58 /\ s[17] = 58
    THEN DateTime(Digits(s, 1, 4), Digits(s, 6, 2), Digits(s, 9, 2), Digits(s, 12, 2),
                  Digits(s, 15, 2), Digits(s, 18, 2))
    ELSE None

\* datetime.fromisoformat for a date, a date and a time to the second (parted
\* by any one character), and the same with an offset of +00:00
fromisoformat(s) ==
    IF Len(s) = 19 THEN DateTimeOfShape(s, 45, 0..1114111)
    ELSE IF Len(s) = 10
         THEN DateTimeOfShape(s \o <<84, 48, 48, 58, 48, 48, 58, 48, 48>>, 45, {84})
    ELSE IF Len(s) = 25 /\ SubSeq(s, 20, 25) = <<43, 48, 48, 58, 48, 48>>
         THEN DateTimeOfShape(SubSeq(s, 1, 19), 45, 0..1114111)
    ELSE None

\* the first of two results that is one
OrElse2(r, rest) == IF r.ok THEN r ELSE rest

\* datetime.strptime with "%Y-%m-%dT%H:%M:%S", "%Y-%m-%d %H:%M:%S" and
\* "%Y/%m/%d %H:%M:%S" in turn, then fromisoformat
ParseCommon(s) ==
    OrElse2(DateTimeOfShape(s, 45, {84}),
            OrElse2(DateTimeOfShape(s, 45, {32}),
                    OrElse2(DateTimeOfShape(s, 47, {32}), fromisoformat(s))))

\* the values of d under keys that are strings, in the order of keys
StringsUnder(d, keys) ==
    SelectSeq([i \in DOMAIN keys |-> dict_get(d, keys[i], JNull)], LAMBDA v : v.t = "str")

\* the first candidate that parses
RECURSIVE FirstParsed(_, _)
FirstParsed(parsed, i) ==
    IF i > Len(parsed) THEN None ELSE OrElse2(parsed[i], FirstParsed(parsed, i + 1))

\* parse_any_timestamp of ts_utils.py: None also where js.get raises
LedgerParse(s) == fromisoformat(ReplaceChar(s, 90, <<43, 48, 48, 58, 48, 48>>))

LedgerCandidates(js) ==
    StringsUnder(js, <<<<84, 105, 109, 101, 115, 116, 97, 109, 112>>, <<83, 97, 118, 101, 84, 105, 109, 101>>>>)
        \o StringsUnder(dict_get(js, <<77, 101, 116, 97>>, JNull),
                        <<<<116, 105, 109, 101, 115, 116, 97, 109, 112>>, <<115, 97, 118, 101, 95, 116, 105, 109, 101>>, <<99, 114, 101, 97, 116, 101, 100, 95, 97, 116>>>>)

parse_any_timestamp(js) ==
    IF js.t # "dict" THEN None
    ELSE FirstParsed([i \in DOMAIN LedgerCandidates(js) |-> LedgerParse(LedgerCandidates(js)[i].v)],
                     1)

\* Python's truth of a JSON value
Truthy(v) ==
    CASE v.t = "null" -> FALSE
      [] v.t = "bool" -> v.v
      [] v.t = "int" -> v.v # 0
      [] OTHER -> v.v # <<>>

\* parse_any_timestamp of nms_resource_ledger_v3.py
V3Parse(s) == ParseCommon(Prefix(Strip(ReplaceChar(s, 90, <<>>)), 19))

V3Meta(js) ==
    IF Truthy(JGet(js, <<77, 101, 116, 97, 68, 97, 116, 97>>)) THEN JGet(js, <<77, 101, 116, 97, 68, 97, 116, 97>>)
    ELSE IF Truthy(JGet(js, <<109, 101, 116, 97, 100, 97, 116, 97>>)) THEN JGet(js, <<109, 101, 116, 97, 100, 97, 116, 97>>)
    ELSE JDict(<<>>)

V3Candidates(js) ==
    StringsUnder(js, <<<<84, 105, 109, 101, 115, 116, 97, 109, 112>>, <<83, 97, 118, 101, 84, 105, 109, 101>>>>)
        \o StringsUnder(V3Meta(js), <<<<84, 105, 109, 101, 115, 116, 97, 109, 112>>, <<116, 105, 109, 101, 115, 116, 97, 109, 112>>, <<83, 97, 118, 101, 100, 65, 116>>, <<115, 97, 118, 101, 100, 95, 97, 116>>>>)

parse_any_timestamp_v3(js) ==
    IF js.t # "dict" THEN None
    ELSE FirstParsed([i \in DOMAIN V3Candidates(js) |-> V3Parse(V3Candidates(js)[i].v)], 1)

\* what canonical_ts_from_file returns: the datetime and where it is from
FromDoc(r) == [from |-> "doc", at |-> r.v]

FromMtime(file) == [from |-> "mtime", at |-> file.mtime]

FromName(r) == [from |-> "name", at |-> r.v]

\* the timestamp of the document of a file, None when the file cannot be
\* read or parsed
DocTimestamp(file, Parse(_)) == IF file.doc.ok THEN Parse(file.doc.v) ELSE None

\* ts_utils.canonical_ts_from_file(path, use_mtime)
LedgerResult(file, r) == IF r.ok THEN FromDoc(r) ELSE FromMtime(file)

canonical_ts_from_file(file, mtime_asked) ==
    IF ~mtime_asked THEN LedgerResult(file, DocTimestamp(file, parse_any_timestamp))
    ELSE FromMtime(file)

\* "chunk = parts[i] + ' ' + parts[i + 1].replace('-', ':')" and its parse, for
\* i from the given one on
RECURSIVE ChunkParsed(_, _)
ChunkParsed(parts, i) ==
    IF i >= Len(parts) THEN None
    ELSE OrElse2(fromisoformat(Prefix(parts[i] \o <<32>> \o ReplaceChar(parts[i + 1], 45, <<58>>), 19)),
                 ChunkParsed(parts, i + 1))

\* the loop over the separators "_", " " and "."
NameTimestamp(name) ==
    OrElse2(ChunkParsed(SplitChar(name, 95, <<>>), 1),
            OrElse2(ChunkParsed(SplitChar(name, 32, <<>>), 1),
                    ChunkParsed(SplitChar(name, 46, <<>>), 1)))

\* nms_resource_ledger_v3.canonical_ts_from_file(path, use_mtime)
V3Fallback(file, r) == IF r.ok THEN FromName(r) ELSE FromMtime(file)

V3Result(file, mtime_asked, r) ==
    IF r.ok THEN FromDoc(r)
    ELSE IF mtime_asked THEN FromMtime(file)
    ELSE V3Fallback(file, NameTimestamp(file.stem))

canonical_ts_from_file_v3(file, mtime_asked) ==
    V3Result(file, mtime_asked, DocTimestamp(file, parse_any_timestamp_v3))

\* the documents of the snapshot files
TsDocs ==
    <<Some(JDict(<< <<<<84, 105, 109, 101, 115, 116, 97, 109, 112>>, JStr(<<50, 48, 50, 53, 45, 48, 57, 45, 50, 48, 84, 49, 52, 58, 51, 51, 58, 48, 48>>)>> >>)),
     Some(JDict(<< <<<<83, 97, 118, 101, 84, 105, 109, 101>>, JStr(<<50, 48, 50, 53, 47, 48, 57, 47, 50, 48, 32, 49, 52, 58, 51, 51, 58, 48, 48>>)>> >>)),
     Some(JDict(<< <<<<84, 105, 109, 101, 115, 116, 97, 109, 112>>, JStr(<<115, 111, 111, 110>>)>>, <<<<83, 97, 118, 101, 84, 105, 109, 101>>, JStr(<<50, 48, 50, 53, 45, 48, 57, 45, 50, 49, 84, 48, 56, 58, 48, 48, 58, 48, 48, 90>>)>> >>)),
     Some(JDict(<< <<<<77, 101, 116, 97>>, JDict(<< <<<<116, 105, 109, 101, 115, 116, 97, 109, 112>>, JStr(<<50, 48, 50, 53, 45, 48, 57, 45, 50, 48, 32, 49, 52, 58, 51, 51, 58, 48, 48>>)>> >>)>> >>)),
     Some(JDict(<< <<<<77, 101, 116, 97, 68, 97, 116, 97>>, JDict(<<>>)>>,
                   <<<<109, 101, 116, 97, 100, 97, 116, 97>>, JDict(<< <<<<83, 97, 118, 101, 100, 65, 116>>, JStr(<<50, 48, 50, 52, 45, 48, 50, 45, 50, 57>>)>> >>)>> >>)),
     Some(JDict(<< <<<<84, 105, 109, 101, 115, 116, 97, 109, 112>>, JInt(17)>> >>)),
     Some(JDict(<< <<<<84, 105, 109, 101, 115, 116, 97, 109, 112>>, JStr(<<50, 48, 50, 53, 45, 49, 51, 45, 50, 48, 84, 49, 52, 58, 51, 51, 58, 48, 48>>)>> >>)),
     Some(JList(<<>>)),
     None>>

\* the names of the files, without the suffix
TsStems ==
    {<<115, 97, 118, 101>>, <<50, 48, 50, 53, 45, 48, 57, 45, 49, 57, 95, 49, 48, 45, 48, 48, 45, 48, 48>>, <<98, 97, 99, 107, 117, 112, 32, 50, 48, 50, 53, 45, 48, 57, 45, 49, 57, 32, 49, 48, 45, 48, 48, 45, 48, 48>>, <<115, 97, 118, 101, 46, 50, 48, 50, 53, 45, 48, 57, 45, 49, 57, 46, 49, 48, 45, 48, 48, 45, 48, 48>>}

\* their modification times
TsMtimes == {1000, 2000}

TsInit ==
    /\ \E d \in DOMAIN TsDocs, n \in TsStems, m \in TsMtimes :
          tsfile = [doc |-> TsDocs[d], stem |-> n, mtime |-> m]
    /\ use_mtime \in BOOLEAN
    /\ ts_ledger = <<>>
    /\ ts_v3 = <<>>
    /\ tpc = "call"

\* both functions on the same file
TsCall ==
    /\ tpc = "call"
    /\ ts_ledger' = canonical_ts_from_file(tsfile, use_mtime)
    /\ ts_v3' = canonical_ts_from_file_v3(tsfile, use_mtime)
    /\ tpc' = "done"
    /\ UNCHANGED <<tsfile, use_mtime>>
    /\ TsOnly

TsNext == TsCall

\* ------------------------------------------------------------------------
\* nms_fullparse main: the index and the sections map
\* ------------------------------------------------------------------------

\* out[k] after "for p in v: if p not in out[k]: out[k].append(p)"; the
\* paths of v are JSON strings
RECURSIVE AppendAbsent(_, _, _)
AppendAll(out, v, i) == out \o [j \in 1..(Len(v) - i + 1) |-> v[j + i - 1].v]

AppendAbsent(out, v, i) ==
    IF i > Len(v) THEN out
    ELSE AppendAbsent(IF v[i].v \in Range(out) THEN out ELSE Append(out, v[i].v), v, i + 1)

\* the categories of the map whose value is a list
ListCategories(smap) == {k \in DOMAIN smap : smap[k].t = "list"}

\* merge_sections_with_map(index, sections_map)
merge_sections_with_map(idx, smap) ==
    [k \in DOMAIN idx \cup ListCategories(smap) |->
        IF k \in ListCategories(smap)
        THEN AppendAbsent(IF k \in DOMAIN idx THEN idx[k] ELSE <<>>, smap[k].v, 1)
        ELSE idx[k]]

\* list(dict.fromkeys(x)) for a list of strings, a dict and a string: the
\* elements in the order of their first occurrence
FromKeys(x) ==
    IF x.t = "list" THEN AppendAbsent(<<>>, x.v, 1)
    ELSE IF x.t = "dict" THEN [i \in DOMAIN x.v |-> x.v[i][1]]
    ELSE _dedupe([i \in DOMAIN x.v |-> <<x.v[i]>>])

\* the index that keeps the heuristic inventories
KeepHeuristic(idx, mapped) == idx

\* 'index["inventories"] = list(dict.fromkeys(mapped_inventories))'
Overridden(idx, mapped) == [idx EXCEPT !["inventories"] = FromKeys(mapped)]

\* 'sections_map.get("inventories") or []'
MappedInventories(smap) ==
    IF "inventories" \in DOMAIN smap /\ Truthy(smap["inventories"]) THEN smap["inventories"]
    ELSE JList(<<>>)

\* lines 38 to 49 of main: smap is None when there is no sections map file;
\* when dict.fromkeys raises (a number is not iterable) the index stays as
\* find_sections made it
WithSectionsMap(idx, smap) ==
    IF ~smap.ok THEN idx
    ELSE IF MappedInventories(smap.v).t \in {"int", "bool"} THEN idx
    ELSE IF MappedInventories(smap.v).v = <<>> THEN merge_sections_with_map(idx, smap.v)
    ELSE merge_sections_with_map(Overridden(idx, MappedInventories(smap.v)), smap.v)

\* a list of n slots
SlotList(n) == JList([i \in 1..n |-> JDict(<<>>)])

\* documents: one with slot lists under a and b.c and a list under Bases,
\* one with nothing to find
MergeDocs ==
    {JDict(<< <<<<97>>, SlotList(10)>>, <<<<66, 97, 115, 101, 115>>, JList(<<JInt(1)>>)>>,
              <<<<98>>, JDict(<< <<<<99>>, SlotList(11)>> >>)>> >>),
     JDict(<< <<<<110>>, JInt(1)>> >>)}

PathList(paths) == JList([i \in DOMAIN paths |-> JStr(paths[i])])

\* what the map may hold under "inventories", "bases" and "ships"; 0 stands
\* for a category the map does not have
MappedValues ==
    [inventories |-> <<0, PathList(<<>>), PathList(<<<<120>>, <<97>>, <<120>>>>), PathList(<<<<97>>>>),
                       JStr(<<98, 46, 99>>), JInt(7)>>,
     bases |-> <<0, PathList(<<<<121>>, <<66, 97, 115, 101, 115>>, <<121>>>>), JStr(<<121>>)>>,
     ships |-> <<0, PathList(<<<<115>>, <<115>>>>)>>]

\* the map with the i-th, j-th and k-th of these values
SectionsMapOf(i, j, k) ==
    [c \in {x \in {"inventories"} : i > 1} \cup {x \in {"bases"} : j > 1}
               \cup {x \in {"ships"} : k > 1} |->
        IF c = "inventories" THEN MappedValues.inventories[i]
        ELSE IF c = "bases" THEN MappedValues.bases[j] ELSE MappedValues.ships[k]]

SectionsMaps ==
    {<<i, j, k>> : i \in DOMAIN MappedValues.inventories, j \in DOMAIN MappedValues.bases,
                   k \in DOMAIN MappedValues.ships}

MergeInit ==
    /\ mdoc \in MergeDocs
    /\ \/ sections_map = None
       \/ \E m \in SectionsMaps : sections_map = Some(SectionsMapOf(m[1], m[2], m[3]))
    /\ heuristic = <<>>
    /\ final = <<>>
    /\ gpc = "index"

\* "index = find_sections(data)"
MergeIndex ==
    /\ gpc = "index"
    /\ heuristic' = find_sections(mdoc)
    /\ gpc' = "merge"
    /\ UNCHANGED <<mdoc, sections_map, final>>
    /\ MergeOnly

\* the sections map, if there is one, is applied
MergeMap ==
    /\ gpc = "merge"
    /\ final' = WithSectionsMap(heuristic, sections_map)
    /\ gpc' = "done"
    /\ UNCHANGED <<mdoc, sections_map, heuristic>>
    /\ MergeOnly

MergeNext == MergeIndex \/ MergeMap

\* ------------------------------------------------------------------------
\* runtime/inventory_fingerprint.py: compute_rows and fingerprint_rows
\* ------------------------------------------------------------------------

\* totals[key] = totals.get(key, 0) + amt on a dict that keeps the order in
\* which its keys were inserted: a sequence of <<key, total>>
FpAdd(tot, key, amt) ==
    IF \E i \in DOMAIN tot : tot[i][1] = key
    THEN [i \in DOMAIN tot |-> IF tot[i][1] = key THEN <<key, tot[i][2] + amt>> ELSE tot[i]]
    ELSE Append(tot, <<key, amt>>)

\* the body of the loop of compute_rows for the entry e that walk() popped
FpCount(tot, e) ==
    IF e.val.t = "dict" /\ FingerprintSlot(e.path, e.val).kind = "count"
    THEN FpAdd(tot, FingerprintSlot(e.path, e.val).key, FingerprintSlot(e.path, e.val).row.amount)
    ELSE tot

\* the loop of compute_rows over walk(obj): totals after the stack is empty
RECURSIVE ComputeTotals(_, _)
ComputeTotals(stack, tot) ==
    IF stack = <<>> THEN tot
    ELSE ComputeTotals(SubSeq(stack, 1, Len(stack) - 1)
                           \o Children(stack[Len(stack)].path, stack[Len(stack)].val),
                       FpCount(tot, stack[Len(stack)]))

\* the keys of totals as they were inserted
InsertionOrder(tot) == [i \in DOMAIN tot |-> tot[i][1]]

\* sorted(totals)
sorted_totals(tot) == SortedKeys({tot[i][1] : i \in DOMAIN tot})

\* totals[key]
FpTotal(tot, key) == tot[CHOOSE i \in DOMAIN tot : tot[i][1] = key][2]

\* [f"{o}|{rid}|{totals[(o, rid)]}" for (o, rid) in keys]
FormatRows(tot, keys) == [i \in DOMAIN keys |-> FingerprintRow(keys[i], FpTotal(tot, keys[i]))]

RowsOfTotals(tot) == FormatRows(tot, sorted_totals(tot))

compute_rows(obj) == RowsOfTotals(ComputeTotals(<<[path |-> <<>>, val |-> obj]>>, <<>>))

\* fingerprint_rows(rows): the BLAKE2b digest is not computed, the
\* fingerprint is held as the payload ";".join(rows) it is the digest of
fingerprint_rows(rows_) == [blake2b_of |-> JoinWith(rows_, <<59>>)]

\* the slots of a document at most
MaxFpSlots == 2

\* a slot and the key of the list it is put in: 1 and 2 of ^FUEL1 and 1 of
\* ^OXYGEN in the suit (";l5"), 1 of ^FUEL1 in the ship ("P;m"), and 1 of
\* the season counter ^S19_X in the suit
FpPlacements ==
    {[owner |-> K_l5, slot |-> Slot(S_FUEL1C, JInt(1), JInt(250), S_Substance)],
     [owner |-> K_l5, slot |-> Slot(S_FUEL1C, JInt(2), JInt(250), S_Substance)],
     [owner |-> K_Pm, slot |-> Slot(S_FUEL1C, JInt(1), JInt(250), S_Substance)],
     [owner |-> K_l5, slot |-> Slot(S_OXYGEN, JInt(1), JInt(250), S_Substance)],
     [owner |-> K_l5, slot |-> Slot(S_S19_X, JInt(1), JInt(250), S_Substance)]}

FpPlacementSeqs == UNION {[1..n -> FpPlacements] : n \in 0..MaxFpSlots}

InSuit(p) == p.owner = K_l5

InShip(p) == p.owner = K_Pm

\* the slots of placements, in order
PlacedSlots(ps) == [i \in DOMAIN ps |-> ps[i].slot]

\* the document holding the slots of ps in two lists, the ship's before the
\* suit's when flip
FpDoc(ps, flip) ==
    IF flip
    THEN JDict(<< <<K_Pm, JList(PlacedSlots(SelectSeq(ps, InShip)))>>,
                  <<K_l5, JList(PlacedSlots(SelectSeq(ps, InSuit)))>> >>)
    ELSE JDict(<< <<K_l5, JList(PlacedSlots(SelectSeq(ps, InSuit)))>>,
                  <<K_Pm, JList(PlacedSlots(SelectSeq(ps, InShip)))>> >>)

\* what compute_rows does with the slot of placement p
PlacedSlot(p) == FingerprintSlot(<<JStr(p.owner), JInt(0)>>, p.slot)

\* the (owner, resource) pair and the amount of each slot of ps that
\* compute_rows accepts
RECURSIVE AcceptedOf(_)
AcceptedOf(ps) ==
    IF ps = <<>> THEN <<>>
    ELSE (IF PlacedSlot(ps[1]).kind = "count"
          THEN <<[key |-> PlacedSlot(ps[1]).key, amount |-> PlacedSlot(ps[1]).row.amount]>>
          ELSE <<>>) \o AcceptedOf(Tail(ps))

\* a document made of the slots ps
FpSource(ps, flip) == [ps |-> ps, accepted |-> AcceptedOf(ps), doc |-> FpDoc(ps, flip)]

\* the documents that list the suit before the ship
SuitFirstDocs == {FpSource(ps, FALSE) : ps \in FpPlacementSeqs}

\* the documents that list the ship before the suit
ShipFirstDocs == {FpSource(ps, TRUE) : ps \in FpPlacementSeqs}

\* two documents, one of each
FpInit ==
    \E a \in SuitFirstDocs, b \in ShipFirstDocs :
        /\ fdocs = <<a, b>>
        /\ frows = <<>>
        /\ fprints = <<>>
        /\ fpc = "first"

\* rows = compute_rows(obj); fingerprint_rows(rows), for one document
FpCall(n) ==
    /\ frows' = Append(frows, compute_rows(fdocs[n].doc))
    /\ fprints' = Append(fprints, fingerprint_rows(frows'[n]))
    /\ UNCHANGED fdocs
    /\ FpOnly

FpFirst == fpc = "first" /\ FpCall(1) /\ fpc' = "second"

FpSecond == fpc = "second" /\ FpCall(2) /\ fpc' = "done"

FpNext == FpFirst \/ FpSecond

\* ------------------------------------------------------------------------
\* nms_hg_decoder.py: decode_hg_blocks_scan_all, one turn of the loop at a time
\* ------------------------------------------------------------------------

\* end = start + comp_sz for the header at idx, as a 1-based position
BlockEnd(b, idx) == idx + HeaderSize + LE32(b, idx + 4)

\* chunk = b[start:end]
BlockChunk(b, idx) == SubSeq(b, idx + HeaderSize, BlockEnd(b, idx) - 1)

\* lz4b.decompress(chunk, uncompressed_size = decomp_sz)
BlockDecompress(b, idx) == lz4_block_decompress(BlockChunk(b, idx), LE32(b, idx + 8))

\* idx = b.find(magic_bytes, pos)
ScanIdx == FindFrom(hb, magic_bytes, hpos)

\* "if idx < 0 or idx + 16 > n: break"
ScanEnds == ScanIdx = 0 \/ (ScanIdx - 1) + HeaderSize > Len(hb)

\* the scan resumes one byte after the match
NextByte(idx, end) == idx + 1

\* "pos = end" after an accepted block
ResumeAfterBlock(idx, end) == end

\* "pos = idx + 1" after a payload that does not decompress
ResumeAfterFailure(idx) == idx + 1

\* "pos = idx + 4" after a header with comp_sz = 0 or a payload that ends
\* past the end of the file
ResumeAfterHeader(idx) == idx + 4

\* the record of a turn: offsets and positions as the code counts them,
\* from 0
Turn(idx, kind, pos, out) == [idx |-> idx - 1, kind |-> kind, pos |-> pos - 1, out_len |-> Len(out)]

\* a turn that leaves out and found alone
ScanGoOn(kind, pos) ==
    /\ hpos' = pos
    /\ hturns' = Append(hturns, Turn(ScanIdx, kind, pos, hout))
    /\ UNCHANGED <<hb, hout, hfound, hret, hpc>>
    /\ ScanOnly

\* "if magic != MAGIC_BLOCK or comp_sz == 0" and "if end > n"
ScanSkipHeader ==
    /\ hpc = "scan"
    /\ ~ScanEnds
    /\ LE32(hb, ScanIdx + 4) = 0 \/ BlockEnd(hb, ScanIdx) - 1 > Len(hb)
    /\ ScanGoOn("header", ResumeAfterHeader(ScanIdx))

\* lz4b.decompress raises
ScanReject ==
    /\ hpc = "scan"
    /\ ~ScanEnds
    /\ LE32(hb, ScanIdx + 4) # 0
    /\ BlockEnd(hb, ScanIdx) - 1 <= Len(hb)
    /\ ~BlockDecompress(hb, ScanIdx).ok
    /\ ScanGoOn("failed", ResumeAfterFailure(ScanIdx))

\* out += dec; found.append((idx, comp_sz, decomp_sz)); pos = end
ScanAccept ==
    /\ hpc = "scan"
    /\ ~ScanEnds
    /\ LE32(hb, ScanIdx + 4) # 0
    /\ BlockEnd(hb, ScanIdx) - 1 <= Len(hb)
    /\ BlockDecompress(hb, ScanIdx).ok
    /\ hout' = hout \o BlockDecompress(hb, ScanIdx).v
    /\ hfound' = Append(hfound, <<ScanIdx - 1, LE32(hb, ScanIdx + 4), LE32(hb, ScanIdx + 8)>>)
    /\ hpos' = ResumeAfterBlock(ScanIdx, BlockEnd(hb, ScanIdx))
    /\ hturns' = Append(hturns, Turn(ScanIdx, "accepted",
                                     ResumeAfterBlock(ScanIdx, BlockEnd(hb, ScanIdx)), hout'))
    /\ UNCHANGED <<hb, hret, hpc>>
    /\ ScanOnly

\* after the loop: "if not found: raise RuntimeError"
ScanRaise ==
    /\ hpc = "scan"
    /\ ScanEnds
    /\ hfound = <<>>
    /\ hpc' = "raised"
    /\ UNCHANGED <<hb, hpos, hout, hfound, hturns, hret>>
    /\ ScanOnly

\* "return bytes(out), found"
ScanReturn ==
    /\ hpc = "scan"
    /\ ScanEnds
    /\ hfound # <<>>
    /\ hret' = Some([out |-> hout, found |-> hfound])
    /\ hpc' = "returned"
    /\ UNCHANGED <<hb, hpos, hout, hfound, hturns>>
    /\ ScanOnly

\* the pieces a file is made of at most
MaxPieces == 2

\* a header [magic][comp_sz][decomp_sz][pad = 0] followed by chunk
RawBlock(comp_sz, decomp_sz, chunk) ==
    magic_bytes \o PackLE32(comp_sz) \o PackLE32(decomp_sz) \o PackLE32(0) \o chunk

\* pieces of a file: a block of "ab"; a block of "c"; a block whose payload
\* announces two literals and holds one; a block whose payload is a whole
\* block of "c" and does not decompress; a block that decompresses to the
\* bytes of a whole block of "c"; a header with comp_sz = 0; a header whose
\* payload would end past the file; the magic alone; two bytes
ScanPieces ==
    {HgBlock(<<97, 98>>),
     HgBlock(<<99>>),
     RawBlock(2, 5, <<32, 97>>),
     RawBlock(Len(HgBlock(<<99>>)), 40, HgBlock(<<99>>)),
     HgBlock(HgBlock(<<99>>)),
     RawBlock(0, 3, <<>>),
     RawBlock(200, 3, <<16, 97>>),
     magic_bytes,
     <<0, 123>>}

ScanFiles == {Concat(ps) : ps \in UNION {[1..n -> ScanPieces] : n \in 0..MaxPieces}}

\* the call decode_hg_blocks_scan_all(b): "out = bytearray(); pos = 0; found = []"
ScanStart(b) ==
    /\ hb = b
    /\ hpos = 1
    /\ hout = <<>>
    /\ hfound = <<>>
    /\ hturns = <<>>
    /\ hret = None
    /\ hpc = "scan"

ScanInit == \E b \in ScanFiles : ScanStart(b)

ScanNext == ScanSkipHeader \/ ScanReject \/ ScanAccept \/ ScanRaise \/ ScanReturn

\* ------------------------------------------------------------------------
\* nms_hg_decoder.py: slice_top_level_json, one iteration of its loops at a
\* time
\* ------------------------------------------------------------------------

\* "i < n and buf[i] not in (ord("{"), ord("["))"
LoopSkips == ki <= Len(kbuf) /\ ~IsOpen(kbuf[ki])

\* an iteration of one of the two loops "while i < n and buf[i] not in ...:
\* i += 1", the one before the outer loop and the one at its end
LoopSkip ==
    /\ kpc \in {"skip", "restart"}
    /\ LoopSkips
    /\ ki' = ki + 1
    /\ UNCHANGED <<kbuf, kj, kstart, kdepth, kin_str, kesc, kres, kpc>>
    /\ LoopOnly

\* the end of such a loop: on to the test of "while i < n"
LoopSkipEnd ==
    /\ kpc \in {"skip", "restart"}
    /\ ~LoopSkips
    /\ kpc' = "outer"
    /\ UNCHANGED <<kbuf, ki, kj, kstart, kdepth, kin_str, kesc, kres>>
    /\ LoopOnly

\* an iteration of "while i < n" up to the inner loop: "i += 1; continue"
\* when buf[i] is no opening bracket, else start = i, j = i and the flags
LoopOuter ==
    /\ kpc = "outer"
    /\ ki <= Len(kbuf)
    /\ IF ~IsOpen(kbuf[ki])
       THEN /\ ki' = ki + 1
            /\ UNCHANGED <<kj, kstart, kdepth, kin_str, kesc, kpc>>
       ELSE /\ kstart' = ki
            /\ kdepth' = 0
            /\ kin_str' = FALSE
            /\ kesc' = FALSE
            /\ kj' = ki
            /\ kpc' = "inner"
            /\ UNCHANGED ki
    /\ UNCHANGED <<kbuf, kres>>
    /\ LoopOnly

\* "return None" after the outer loop
LoopNone ==
    /\ kpc = "outer"
    /\ ki > Len(kbuf)
    /\ kres' = None
    /\ kpc' = "done"
    /\ UNCHANGED <<kbuf, ki, kj, kstart, kdepth, kin_str, kesc>>
    /\ LoopOnly

\* the closing bracket at j brings depth back to 0
LoopCloses == ~kin_str /\ IsClose(kbuf[kj]) /\ kdepth - 1 = 0

\* in_str after the byte ch
InStrAfter(ch) ==
    IF kin_str THEN (kesc \/ ch # 34) ELSE ch = 34

\* esc after the byte ch
EscAfter(ch) ==
    IF kin_str THEN (~kesc /\ ch = 92) ELSE kesc

\* depth after the byte ch
DepthAfter(ch) ==
    IF kin_str \/ ch = 34 THEN kdepth
    ELSE IF IsOpen(ch) THEN kdepth + 1
    ELSE IF IsClose(ch) THEN kdepth - 1
    ELSE kdepth

\* an iteration of "while j < n" that ends with "j += 1"
LoopInner ==
    /\ kpc = "inner"
    /\ kj <= Len(kbuf)
    /\ ~LoopCloses
    /\ kin_str' = InStrAfter(kbuf[kj])
    /\ kesc' = EscAfter(kbuf[kj])
    /\ kdepth' = DepthAfter(kbuf[kj])
    /\ kj' = kj + 1
    /\ UNCHANGED <<kbuf, ki, kstart, kres, kpc>>
    /\ LoopOnly

\* "return (start, j + 1)"
LoopReturn ==
    /\ kpc = "inner"
    /\ kj <= Len(kbuf)
    /\ LoopCloses
    /\ kdepth' = kdepth - 1
    /\ kres' = Some(<<kstart - 1, kj>>)
    /\ kpc' = "done"
    /\ UNCHANGED <<kbuf, ki, kj, kstart, kin_str, kesc>>
    /\ LoopOnly

\* the opening bracket itself
SameStart(start) == start

\* where the outer loop goes on after an opening bracket that was not closed
RestartAt(start) == start + 1

\* the inner loop ran to the end of the buffer: "i = start + 1"
LoopInnerEnd ==
    /\ kpc = "inner"
    /\ kj > Len(kbuf)
    /\ ki' = RestartAt(kstart)
    /\ kpc' = "restart"
    /\ UNCHANGED <<kbuf, kj, kstart, kdepth, kin_str, kesc, kres>>
    /\ LoopOnly

\* the bytes of a short buffer at most
MaxLoopBytes == 3

\* the buffers: every short buffer of NULs, quotes, backslashes and
\* brackets, and two longer texts with and without a prefix
LoopBufs ==
    SeqsUpTo(TailBytes, MaxLoopBytes)
        \cup {P \o J : P \in {<<>>, <<92, 34>>, <<123, 34>>}, J \in {SliceText7, SliceText8}}

LoopInit ==
    \E b \in LoopBufs :
        /\ kbuf = b
        /\ ki = 1
        /\ kj = 1
        /\ kstart = 0
        /\ kdepth = 0
        /\ kin_str = FALSE
        /\ kesc = FALSE
        /\ kres = None
        /\ kpc = "skip"

LoopNext ==
    LoopSkip \/ LoopSkipEnd \/ LoopOuter \/ LoopNone \/ LoopInner \/ LoopReturn \/ LoopInnerEnd

\* ------------------------------------------------------------------------
\* nms_import_initial.py: run_nmssavetool, one form of invocation at a time
\* ------------------------------------------------------------------------

\* bytes.strip() removes ASCII whitespace
IsByteSpace(c) == c \in {9, 10, 11, 12, 13, 32}

RECURSIVE ByteLStrip(_)
ByteLStrip(s) == IF s # <<>> /\ IsByteSpace(s[1]) THEN ByteLStrip(Tail(s)) ELSE s

RECURSIVE ByteRStrip(_)
ByteRStrip(s) ==
    IF s # <<>> /\ IsByteSpace(s[Len(s)]) THEN ByteRStrip(SubSeq(s, 1, Len(s) - 1)) ELSE s

\* raw.replace(b"\x00", b"")
WithoutNul(s) == SelectSeq(s, LAMBDA c : c # 0)

\* _clean_json_bytes: the BOM and the NULs removed, then strip()
clean_json_bytes(raw_) ==
    ByteRStrip(ByteLStrip(WithoutNul(
        IF StartsWith(raw_, <<239, 187, 191>>) THEN SubSeq(raw_, 4, Len(raw_)) ELSE raw_)))

\* the first position of "{" or "[" in s, 0 when there is none
FirstOpen(s) ==
    IF \E i \in DOMAIN s : IsOpen(s[i])
    THEN CHOOSE i \in DOMAIN s : IsOpen(s[i]) /\ \A j \in 1..(i - 1) : ~IsOpen(s[j])
    ELSE 0

\* _slice_to_json: the cleaned bytes from the first "{" or "[" on, b"" when
\* there is none
slice_to_json(raw_) ==
    IF clean_json_bytes(raw_) = <<>> \/ FirstOpen(clean_json_bytes(raw_)) = 0
    THEN <<>>
    ELSE IF IsOpen(ByteLStrip(SubSeq(clean_json_bytes(raw_), FirstOpen(clean_json_bytes(raw_)),
                                     Len(clean_json_bytes(raw_))))[1])
         THEN ByteLStrip(SubSeq(clean_json_bytes(raw_), FirstOpen(clean_json_bytes(raw_)),
                                Len(clean_json_bytes(raw_))))
         ELSE <<>>

\* attempts with a decoder_hint: the arguments after "python3 tool", and the
\* mode
HintAttempts ==
    <<[argv |-> <<"--in", "src", "--out", "out_json">>, mode |-> "file"],
      [argv |-> <<"-i", "src", "-o", "out_json">>, mode |-> "file"],
      [argv |-> <<"src">>, mode |-> "cap"],
      [argv |-> <<"dump", "src">>, mode |-> "cap"],
      [argv |-> <<"decode", "src">>, mode |-> "cap"],
      [argv |-> <<"decompress", "src", "out_json">>, mode |-> "file"]>>

\* attempts without one: the arguments after "nmssavetool"
PathAttempts ==
    <<[argv |-> <<"src">>, mode |-> "cap"],
      [argv |-> <<"dump", "src">>, mode |-> "cap"],
      [argv |-> <<"decode", "src">>, mode |-> "cap"],
      [argv |-> <<"decompress", "src", "out_json">>, mode |-> "file"],
      [argv |-> <<"-i", "src", "-o", "out_json">>, mode |-> "file"]>>

attempts == IF nhint THEN HintAttempts ELSE PathAttempts

\* what a stream may hold: nothing, or a line of noise and "{}" on stdout,
\* "[]" on stderr
ToolStdout == {<<>>, <<120, 10, 123, 125>>}

ToolStderr == {<<>>, <<91, 93>>}

\* what a tool may write to out_json: "[1]", or noise
ToolWrites == {None, Some(<<91, 49, 93>>), Some(<<120>>)}

\* what out_json may hold before the call, left by an earlier run or by a
\* save of the same name in another directory: "{0}", or noise
StaleFiles == {None, Some(<<123, 48, 125>>), Some(<<120>>)}

\* what running a form may do; a form that does not name out_json does not
\* write it
ToolOutcomes(mode) ==
    [rc : {0, 1}, stdout : ToolStdout, stderr : ToolStderr,
     wrote : IF mode = "file" THEN ToolWrites ELSE {None}]

\* out_json after the tool has run
FileAfter(o) == IF o.wrote.ok THEN o.wrote ELSE nfile

\* "for stream in (res.stdout, res.stderr): data = _slice_to_json(stream or
\* b""); if data: ..."
FromStreams(o) ==
    IF slice_to_json(o.stdout) # <<>> THEN slice_to_json(o.stdout) ELSE slice_to_json(o.stderr)

\* data of the form that has run, b"" when the form gives none: from the
\* streams in mode "cap", from out_json if it exists in mode "file", else
\* from the streams
ToolData(mode, o) ==
    IF mode = "file" /\ FileAfter(o).ok THEN slice_to_json(FileAfter(o).v) ELSE FromStreams(o)

\* the text appended to errors, after the words of the command
ToolNote(mode, o) ==
    IF o.rc # 0 THEN <<"stderr", ByteRStrip(ByteLStrip(o.stderr))>>
    ELSE IF mode = "cap" THEN <<"no JSON on stdout/stderr after slicing">>
    ELSE IF FileAfter(o).ok THEN <<"wrote file but not valid JSON">>
    ELSE <<"no output file created">>

\* subprocess.run(argv, check = True) raises CalledProcessError
ToolFails(o) ==
    /\ o.rc # 0
    /\ nfile' = FileAfter(o)
    /\ nerrors' = Append(nerrors, <<attempts[nnext].argv, ToolNote(attempts[nnext].mode, o)>>)
    /\ nnext' = nnext + 1
    /\ UNCHANGED npc

\* "out_json.write_bytes(data); return"
ToolReturns(o) ==
    /\ o.rc = 0
    /\ ToolData(attempts[nnext].mode, o) # <<>>
    /\ nfile' = Some(ToolData(attempts[nnext].mode, o))
    /\ npc' = "returned"
    /\ UNCHANGED <<nerrors, nnext>>

\* no data: errors.append(...), after out_json.unlink(missing_ok = True) in
\* mode "file" when the file exists
ToolNoJson(o) ==
    /\ o.rc = 0
    /\ ToolData(attempts[nnext].mode, o) = <<>>
    /\ nfile' = IF attempts[nnext].mode = "file" THEN None ELSE nfile
    /\ nerrors' = Append(nerrors, <<attempts[nnext].argv, ToolNote(attempts[nnext].mode, o)>>)
    /\ nnext' = nnext + 1
    /\ UNCHANGED npc

\* one turn of "for argv, mode in attempts"
ToolRun ==
    /\ npc = "run"
    /\ nnext <= Len(attempts)
    /\ \E o \in ToolOutcomes(attempts[nnext].mode) :
          /\ nlast' = Some(o)
          /\ ToolFails(o) \/ ToolReturns(o) \/ ToolNoJson(o)
    /\ UNCHANGED nhint
    /\ ToolOnly

\* after the loop: raise SystemExit("[ERR] Failed to decode JSON from save
\* file. ... Tried: ...")
ToolFatal ==
    /\ npc = "run"
    /\ nnext > Len(attempts)
    /\ npc' = "fatal"
    /\ UNCHANGED <<nhint, nnext, nfile, nlast, nerrors>>
    /\ ToolOnly

\* the call run_nmssavetool(src, out_json, decoder_hint)
ToolInit ==
    /\ nhint \in BOOLEAN
    /\ nfile \in StaleFiles
    /\ nnext = 1
    /\ nlast = None
    /\ nerrors = <<>>
    /\ npc = "run"

ToolNext == ToolRun \/ ToolFatal

\* ------------------------------------------------------------------------
\* utils/paths.py: a path printed and parsed back
\* ------------------------------------------------------------------------

\* whether int(text) returns, for a text without blanks and underscores: an
\* optional sign and at least one digit
IsIntText(text) ==
    /\ text # <<>>
    /\ \A i \in DOMAIN text : IsDigit(text[i]) \/ (i = 1 /\ text[i] \in {43, 45})
    /\ \E i \in DOMAIN text : IsDigit(text[i])

\* whether "int(idx[:-1])" raises ValueError for the token
TokenRaises(tok) ==
    /\ tok # <<>> /\ tok[Len(tok)] = 93 /\ RFindByte(tok, 91) # 0
    /\ ~IsIntText(SubSeq(tok, RFindByte(tok, 91) + 1, Len(tok) - 1))

\* parse_path_string(s) as a call: None when it raises
ParseCall(s) ==
    IF \E i \in DOMAIN SplitPath(s, 1, <<>>, FALSE, <<>>) :
           TokenRaises(SplitPath(s, 1, <<>>, FALSE, <<>>)[i])
    THEN None
    ELSE Some(parse_path_string(s))

\* the longest path
MaxPathLen == 2

\* the keys of a path: "a", "", ".", "\", "a.b", "a\", "[", "]", "[0]",
\* "x[1]" and "[x]"
PathKeys ==
    {<<97>>, <<>>, <<46>>, <<92>>, <<97, 46, 98>>, <<97, 92>>, <<91>>, <<93>>,
     <<91, 48, 93>>, <<120, 91, 49, 93>>, <<91, 120, 93>>}

\* a key or an index
PathParts == {JStr(k) : k \in PathKeys} \cup {JInt(0), JInt(1)}

PathInit ==
    /\ ppath \in UNION {[1..n -> PathParts] : n \in 0..MaxPathLen}
    /\ ptext = <<>>
    /\ pback = None
    /\ ppc = "print"

\* s = path_to_string(path)
PathPrint ==
    /\ ppc = "print"
    /\ ptext' = path_to_string(ppath)
    /\ ppc' = "parse"
    /\ UNCHANGED <<ppath, pback>>
    /\ PathOnly

\* parse_path_string(s)
PathParse ==
    /\ ppc = "parse"
    /\ pback' = ParseCall(ptext)
    /\ ppc' = "done"
    /\ UNCHANGED <<ppath, ptext>>
    /\ PathOnly

PathNext == PathPrint \/ PathParse

\* ------------------------------------------------------------------------
\* owner inference: nms_extract_inventory against inventory_fingerprint
\* ------------------------------------------------------------------------

\* the longest path, but for the deep ones
MaxOwnerPath == 3

\* the segments of a path: the five owner tokens, another key, an index
OwnerSegs == {JStr(K_l5), JStr(K_Pm), JStr(K_IP), JStr(K_3Nc), JStr(K_8ZP), JStr(<<120>>), JInt(0)}

\* a path with seg in second place, above n more segments
DeepPath(seg, n) == <<JStr(<<120>>), seg>> \o [i \in 1..n |-> JStr(<<120>>)]

\* the paths: all the short ones, and for each segment one that holds it
\* twelve levels above the slot and one that holds it eleven levels above
OwnerPaths ==
    UNION {[1..n -> OwnerSegs] : n \in 0..MaxOwnerPath}
    \cup {DeepPath(seg, n) : seg \in OwnerSegs, n \in {11, 12}}

OwnerInit ==
    /\ opath \in OwnerPaths
    /\ oext = <<>>
    /\ ofp = <<>>
    /\ opc = "extract"

\* nms_extract_inventory.main: owner = "UNKNOWN"; pstr = ...; if ".;l5." in pstr: ...
OwnerExtract ==
    /\ opc = "extract"
    /\ oext' = ExtractOwner(opath)
    /\ opc' = "fingerprint"
    /\ UNCHANGED <<opath, ofp>>
    /\ OwnerOnly

\* inventory_fingerprint: owner = _infer_owner(path)
OwnerFingerprint ==
    /\ opc = "fingerprint"
    /\ ofp' = _infer_owner(opath)
    /\ opc' = "done"
    /\ UNCHANGED <<opath, oext>>
    /\ OwnerOnly

OwnerNext == OwnerExtract \/ OwnerFingerprint

\* ------------------------------------------------------------------------
\* pipeline/build_manifest.py: invocations that run at the same time, and a
\* reader of the manifest
\* ------------------------------------------------------------------------

\* the most invocations
MaxWriters == 2

\* the manifest invocation p writes, as units of text that name p: the
\* manifests of two invocations differ in length when their pairs do
ManifestOf(p) == [i \in 1..(p + 1) |-> p]

\* the manifest an earlier run left
OldManifest == <<9, 9>>

\* a file after data was written at offset 0: what lies beyond the data
\* stays
Overwrite(old, data) == data \o SubSeq(old, Len(data) + 1, Len(old))

BuildInit ==
    /\ bn \in 1..MaxWriters
    /\ bpc = [p \in 1..MaxWriters |-> IF p <= bn THEN "start" ELSE "off"]
    /\ bfd = [p \in 1..MaxWriters |-> 0]
    /\ btmp = 0
    /\ \/ bfinal = 0 /\ binodes = <<>>
       \/ bfinal = 1 /\ binodes = <<OldManifest>>
    /\ bseen = [state |-> "unread", v |-> <<>>]

\* MANIFEST_TMP.write_text(...): open(MANIFEST_TMP, "w") makes the file or
\* truncates the one there is
BuildOpen(p) ==
    /\ bpc[p] = "start"
    /\ IF btmp = 0
       THEN /\ binodes' = Append(binodes, <<>>)
            /\ btmp' = Len(binodes) + 1
            /\ bfd' = [bfd EXCEPT ![p] = Len(binodes) + 1]
       ELSE /\ binodes' = [binodes EXCEPT ![btmp] = <<>>]
            /\ bfd' = [bfd EXCEPT ![p] = btmp]
            /\ UNCHANGED btmp
    /\ bpc' = [bpc EXCEPT ![p] = "opened"]
    /\ UNCHANGED <<bn, bfinal, bseen>>
    /\ BuildOnly

\* write_text: the text is written to the open file and the file is closed
BuildWrite(p) ==
    /\ bpc[p] = "opened"
    /\ binodes' = [binodes EXCEPT ![bfd[p]] = Overwrite(binodes[bfd[p]], ManifestOf(p))]
    /\ bfd' = [bfd EXCEPT ![p] = 0]
    /\ bpc' = [bpc EXCEPT ![p] = "written"]
    /\ UNCHANGED <<bn, btmp, bfinal, bseen>>
    /\ BuildOnly

\* os.replace(MANIFEST_TMP, MANIFEST_FINAL)
BuildReplace(p) ==
    /\ bpc[p] = "written"
    /\ btmp # 0
    /\ bfinal' = btmp
    /\ btmp' = 0
    /\ bpc' = [bpc EXCEPT ![p] = "done"]
    /\ UNCHANGED <<bn, bfd, binodes, bseen>>
    /\ BuildOnly

\* os.replace raises FileNotFoundError: another invocation has renamed the
\* file
BuildReplaceFails(p) ==
    /\ bpc[p] = "written"
    /\ btmp = 0
    /\ bpc' = [bpc EXCEPT ![p] = "failed"]
    /\ UNCHANGED <<bn, bfd, btmp, bfinal, binodes, bseen>>
    /\ BuildOnly

\* a reader reads the file at MANIFEST_FINAL
BuildRead ==
    /\ bn # 0
    /\ bseen' = IF bfinal = 0 THEN [state |-> "absent", v |-> <<>>]
                ELSE [state |-> "read", v |-> binodes[bfinal]]
    /\ UNCHANGED <<bn, bpc, bfd, btmp, bfinal, binodes>>
    /\ BuildOnly

BuildNext ==
    \/ \E p \in 1..MaxWriters :
          BuildOpen(p) \/ BuildWrite(p) \/ BuildReplace(p) \/ BuildReplaceFails(p)
    \/ BuildRead

\* ------------------------------------------------------------------------
\* nms_resource_ledger_v3.run_ledger: the ledger of several snapshots
\* ------------------------------------------------------------------------

\* the most snapshots loaded
MaxSnaps == 3

\* timestamps in seconds, thresholds in minutes
SnapTimes == {0, 60, 180}

SessionMinutes == {-1, 0, 1}

\* the totals of a snapshot: resource 1 alone, both resources, resource 2
\* alone
SnapInvs == {<<1>>, <<3, 1>>, (2 :> 1)}

Snapshot(ts, inv) == [ts |-> ts, inv |-> inv]

SnapLists ==
    UNION {[1..n -> {Snapshot(ts, inv) : ts \in SnapTimes, inv \in SnapInvs}] : n \in 0..MaxSnaps}

LedgerInit ==
    /\ qinput \in SnapLists
    /\ qminutes \in SessionMinutes
    /\ qsnaps = qinput
    /\ qi = 0 /\ qrows = <<>> /\ qtotals = <<>> /\ qout = <<>>
    /\ qpc = "loaded"

\* "if len(snapshots) < 2: raise SystemExit"
LedgerTooFew ==
    /\ qpc = "loaded"
    /\ Len(qsnaps) < 2
    /\ qpc' = "exit"
    /\ UNCHANGED <<qinput, qminutes, qsnaps, qi, qrows, qtotals, qout>>
    /\ LedgerOnly

\* snapshots.sort(key=lambda x: x["ts"])
LedgerSort ==
    /\ qpc = "loaded"
    /\ Len(qsnaps) >= 2
    /\ qsnaps' = SortedByTs(qsnaps, 1, <<>>)
    /\ qpc' = "sorted"
    /\ UNCHANGED <<qinput, qminutes, qi, qrows, qtotals, qout>>
    /\ LedgerOnly

\* coalesce_sessions that keeps every snapshot
KeepAll(snapshots, session_minutes) == snapshots

\* snapshots = coalesce_sessions(snapshots, args.session_minutes)
Coalesced(snapshots, session_minutes) == coalesce_sessions_v3(snapshots, session_minutes)

LedgerCoalesce ==
    /\ qpc = "sorted"
    /\ qsnaps' = Coalesced(qsnaps, qminutes)
    /\ qi' = 1
    /\ qpc' = "pairs"
    /\ UNCHANGED <<qinput, qminutes, qrows, qtotals, qout>>
    /\ LedgerOnly

\* a row of the ledger with its session
SessionRow(ss, se, rid, d) ==
    [session_start |-> ss, session_end |-> se, resource_id |-> rid,
     acquired |-> Max2(d, 0), spent |-> Max2(0 - d, 0), net |-> d]

\* the loop over delta.items() from resource rid on: the rows appended and
\* the totals after it.  The dict is built from a set, whose order is not
\* defined; the rows of one pair are taken by ascending resource
\* the greatest key of a dict of resources, 0 for the empty one
LastKey(d) == IF DOMAIN d = {} THEN 0 ELSE CHOOSE x \in DOMAIN d : \A y \in DOMAIN d : y <= x

RECURSIVE RowsOfPair(_, _, _, _, _)
RowsOfPair(delta_, ss, se, rid, acc) ==
    IF rid > LastKey(delta_) THEN acc
    ELSE IF rid \notin DOMAIN delta_ \/ ~RowWritten(delta_[rid])
         THEN RowsOfPair(delta_, ss, se, rid + 1, acc)
         ELSE RowsOfPair(delta_, ss, se, rid + 1,
                         Append(acc, SessionRow(ss, se, rid, delta_[rid])))

\* "t = totals.setdefault(rid, {"acq":0.0, "spent":0.0}); t["acq"] += acq;
\*  t["spent"] += spent" for the rows from the i-th on
RECURSIVE TotalsWith(_, _, _)
TotalsWith(tot, new_rows, i) ==
    IF i > Len(new_rows) THEN tot
    ELSE TotalsWith(
             [r \in DOMAIN tot \cup {new_rows[i].resource_id} |->
                 IF r # new_rows[i].resource_id THEN tot[r]
                 ELSE [acq |-> DictGet(tot, r, [acq |-> 0, spent |-> 0]).acq + new_rows[i].acquired,
                       spent |-> DictGet(tot, r, [acq |-> 0, spent |-> 0]).spent + new_rows[i].spent]],
             new_rows, i + 1)

\* the rows of the pair snapshots[i-1], snapshots[i]
PairRows(prev, cur) ==
    RowsOfPair(diff_inventories(prev.inv, cur.inv), prev.ts, cur.ts, 1, <<>>)

\* one turn of "for i in range(1, len(snapshots))"
LedgerPair ==
    /\ qpc = "pairs"
    /\ qi < Len(qsnaps)
    /\ qrows' = qrows \o PairRows(qsnaps[qi], qsnaps[qi + 1])
    /\ qtotals' = TotalsWith(qtotals, PairRows(qsnaps[qi], qsnaps[qi + 1]), 1)
    /\ qi' = qi + 1
    /\ UNCHANGED <<qinput, qminutes, qsnaps, qout, qpc>>
    /\ LedgerOnly

\* the loop is over: the totals file
LedgerWrite ==
    /\ qpc = "pairs"
    /\ qi >= Len(qsnaps)
    /\ qout' = [rid \in DOMAIN qtotals |->
                   [lifetime_acquired |-> qtotals[rid].acq, lifetime_spent |-> qtotals[rid].spent,
                    lifetime_net |-> qtotals[rid].acq - qtotals[rid].spent]]
    /\ qpc' = "done"
    /\ UNCHANGED <<qinput, qminutes, qsnaps, qi, qrows, qtotals>>
    /\ LedgerOnly

LedgerNext == LedgerTooFew \/ LedgerSort \/ LedgerCoalesce \/ LedgerPair \/ LedgerWrite

\* ------------------------------------------------------------------------
\* pipeline/ledger: aggregate_inventory, _collect_initial_rows and
\* initial_import_to_db
\* ------------------------------------------------------------------------

\* "_index", "inventories", "Id", "Amount"
S__index == <<95, 105, 110, 100, 101, 120>>

S_inventories == <<105, 110, 118, 101, 110, 116, 111, 114, 105, 101, 115>>

S_Id == <<73, 100>>

S_Amount == <<65, 109, 111, 117, 110, 116>>

\* "vLc", "2YS", ".PMT.", "PMT", ".hl?", "hl?", "a", "s", "F", "O", "T"
S_vLc == <<118, 76, 99>>

S_2YS == <<50, 89, 83>>

S_dPMTd == <<46, 80, 77, 84, 46>>

S_PMT == <<80, 77, 84>>

S_dhlq == <<46, 104, 108, 63>>

S_hlq == <<104, 108, 63>>

S_a == <<97>>

S_s == <<115>>

S_F == <<70>>

S_O == <<79>>

S_T == <<84>>

\* cur[key] for a str key: a dict gives the value of a key it holds, anything
\* else raises (None)
IndexKey(cur, key) ==
    IF cur.t = "dict" /\ DictHas(cur.v, key) THEN Some(DictAt(cur.v, key)) ELSE None

\* cur[n] for an int n >= 0: a list gives its item, a str its character
IndexInt(cur, n) ==
    IF cur.t = "list" /\ n < Len(cur.v) THEN Some(cur.v[n + 1])
    ELSE IF cur.t = "str" /\ n < Len(cur.v) THEN Some(JStr(<<cur.v[n + 1]>>))
    ELSE None

\* the place of the first "[digits]" of seg from i on, 0 when there is none:
\* re.match(r"^(.*?)(\[\d+\])(.*)$", seg)
RECURSIVE FirstStep(_, _)
FirstStep(seg, i) ==
    IF i > Len(seg) THEN 0
    ELSE IF /\ seg[i] = 91
            /\ DigitsEnd(seg, i + 1) > i + 1
            /\ DigitsEnd(seg, i + 1) <= Len(seg)
            /\ seg[DigitsEnd(seg, i + 1)] = 93
         THEN i
         ELSE FirstStep(seg, i + 1)

\* the "while True" of _resolve_selector for one segment
RECURSIVE ResolveSeg(_, _)
AfterStep(cur, seg, i) ==
    IF ~cur.ok THEN None
    ELSE IF ~IndexInt(cur.v, DigitsToInt(SubSeq(seg, i + 1, DigitsEnd(seg, i + 1) - 1), 1, 0)).ok
         THEN None
         ELSE IF DigitsEnd(seg, i + 1) = Len(seg)
              THEN IndexInt(cur.v, DigitsToInt(SubSeq(seg, i + 1, DigitsEnd(seg, i + 1) - 1), 1, 0))
              ELSE ResolveSeg(IndexInt(cur.v, DigitsToInt(SubSeq(seg, i + 1,
                                                                   DigitsEnd(seg, i + 1) - 1), 1, 0)).v,
                              From(seg, DigitsEnd(seg, i + 1) + 1))

ResolveSeg(cur, seg) ==
    IF FirstStep(seg, 1) = 0
    THEN (IF seg = <<>> THEN Some(cur) ELSE IndexKey(cur, seg))
    ELSE AfterStep(IF FirstStep(seg, 1) = 1 THEN Some(cur)
                   ELSE IndexKey(cur, SubSeq(seg, 1, FirstStep(seg, 1) - 1)),
                   seg, FirstStep(seg, 1))

\* _resolve_selector(root, sel) from the i-th segment on; None when it raises
RECURSIVE ResolveFrom(_, _, _)
ResolveFrom(cur, segs, i) ==
    IF i > Len(segs) THEN Some(cur)
    ELSE IF ~ResolveSeg(cur, segs[i]).ok THEN None
    ELSE ResolveFrom(ResolveSeg(cur, segs[i]).v, segs, i + 1)

_resolve_selector(root, sel) == ResolveFrom(root, SplitChar(sel, 46, <<>>), 1)

_infer_section_from_selector(sel) ==
    IF Contains(sel, S_dPMTd) THEN "cargo"
    ELSE IF Contains(sel, S_dhlq) THEN "tech"
    ELSE "general"

_infer_owner_from_selector(sel) ==
    IF SplitChar(sel, 46, <<>>)[1] = S_2YS THEN "ship"
    ELSE IF SplitChar(sel, 46, <<>>)[1] = S_vLc THEN "character"
    ELSE "unknown"

\* str(rid) for an Id that is a str or an int
StrOfId(rid) == IF rid.t = "int" THEN IntText(rid.v) ELSE rid.v

\* int(e.get("Amount", 0) or 0) for an Amount that is an int, absent or null
AmountOf(e) == IF JGet(e, S_Amount).t = "int" THEN JGet(e, S_Amount).v ELSE 0

\* totals[key] = totals.get(key, 0) + amt
AddTotal(tot, key, amt) ==
    [k \in DOMAIN tot \cup {key} |-> IF k = key THEN DictGet(tot, key, 0) + amt ELSE tot[k]]

\* "for e in node" from the i-th entry on
RECURSIVE NodeTotals(_, _, _, _, _)
NodeTotals(tot, node, sel, include_tech, i) ==
    IF i > Len(node) THEN tot
    ELSE IF \/ node[i].t # "dict"
            \/ JGet(node[i], S_Id) = JNull
            \/ (~include_tech /\ _infer_section_from_selector(sel) = "tech")
         THEN NodeTotals(tot, node, sel, include_tech, i + 1)
         ELSE NodeTotals(AddTotal(tot, <<_infer_owner_from_selector(sel),
                                         _infer_section_from_selector(sel),
                                         StrOfId(JGet(node[i], S_Id))>>, AmountOf(node[i])),
                         node, sel, include_tech, i + 1)

\* "for sel in idx" from the i-th selector on
RECURSIVE SelectorTotals(_, _, _, _, _)
SelectorTotals(tot, js, idx, include_tech, i) ==
    IF i > Len(idx) THEN tot
    ELSE IF \/ ~_resolve_selector(js, idx[i].v).ok
            \/ _resolve_selector(js, idx[i].v).v.t # "list"
         THEN SelectorTotals(tot, js, idx, include_tech, i + 1)
         ELSE SelectorTotals(NodeTotals(tot, _resolve_selector(js, idx[i].v).v.v, idx[i].v,
                                        include_tech, 1),
                             js, idx, include_tech, i + 1)

\* js.get("_index", {}).get("inventories", [])
IndexOf(js) ==
    IF ~DictHas(js.v, S__index) THEN JList(<<>>)
    ELSE IF ~DictHas(JGet(js, S__index).v, S_inventories) THEN JList(<<>>)
    ELSE JGet(JGet(js, S__index), S_inventories)

\* aggregate_inventory(js, include_tech) of pipeline/ledger/inventory.py
ledger_aggregate_inventory(js, include_tech) ==
    IF IndexOf(js).t # "list" THEN <<>>
    ELSE SelectorTotals(<<>>, js, IndexOf(js).v, include_tech, 1)

\* "(owner_type, item_id) = key": a key of two parts can be taken apart so,
\* any other raises ValueError
Unpack2(key) == IF Len(key) = 2 THEN Some(key) ELSE None

\* _collect_initial_rows: "for (owner_type, item_id), amt in
\* sorted(totals.items()): rows.append((owner_type, item_id, int(amt)))";
\* the keys differ, so the sorted list of rows is held as their set
CollectRows(totals_) ==
    IF \E k \in DOMAIN totals_ : ~Unpack2(k).ok THEN None
    ELSE Some({<<Unpack2(k).v[1], Unpack2(k).v[2], totals_[k]>> : k \in DOMAIN totals_})

\* the most selectors in _index.inventories
MaxSelectors == 2

\* the slots of a document
SlotOf(rid, amount) == JDict(<< <<S_Id, rid>>, <<S_Amount, amount>> >>)

\* a full-parse document: a character with a general and a tech list, a ship
\* with a cargo list
BodyFull ==
    << <<S_vLc, JDict(<< <<S_a, JList(<<SlotOf(JStr(S_F), JInt(5)), SlotOf(JStr(S_F), JInt(3)),
                                        SlotOf(JStr(S_O), JInt(2)),
                                        JDict(<< <<S_Amount, JInt(1)>> >>), JStr(S_F)>>)>>,
                         <<S_hlq, JList(<<SlotOf(JStr(S_T), JInt(1))>>)>> >>)>>,
       <<S_2YS, JList(<<JDict(<< <<S_PMT, JDict(<< <<S_s, JList(<<SlotOf(JStr(S_F), JInt(7))>>)>> >>)>> >>)>>)>> >>

\* the same with empty lists
BodyEmpty ==
    << <<S_vLc, JDict(<< <<S_a, JList(<<>>)>>, <<S_hlq, JList(<<>>)>> >>)>>,
       <<S_2YS, JList(<<JDict(<< <<S_PMT, JDict(<< <<S_s, JList(<<>>)>> >>)>> >>)>>)>> >>

\* "vLc.a", "vLc.hl?", "2YS[0].PMT.s", "2YS[1].PMT.s", "vLc", "vLc.a[0]", "2YS"
Selectors ==
    {S_vLc \o <<46>> \o S_a, S_vLc \o S_dhlq, S_2YS \o <<91, 48, 93>> \o S_dPMTd \o S_s,
     S_2YS \o <<91, 49, 93>> \o S_dPMTd \o S_s, S_vLc, S_vLc \o <<46>> \o S_a \o <<91, 48, 93>>,
     S_2YS}

\* the values of _index.inventories: lists of selectors, and a number
IndexValues ==
    {JInt(7)} \cup
    {JList(sels) : sels \in UNION {[1..n -> {JStr(s) : s \in Selectors}] : n \in 0..MaxSelectors}}

FullParseDocs ==
    {JDict(BodyFull), JDict(BodyEmpty)} \cup
    {JDict(Append(body, <<S__index, JDict(<< <<S_inventories, idx>> >>)>>)) :
        body \in {BodyFull, BodyEmpty}, idx \in IndexValues}

AggInit ==
    /\ ajs \in FullParseDocs
    /\ atech \in BOOLEAN
    /\ atotals = <<>> /\ arows = None /\ awritten = {}
    /\ apc = "aggregate"

\* totals = aggregate_inventory(js, include_tech=include_tech)
AggCall ==
    /\ apc = "aggregate"
    /\ atotals' = ledger_aggregate_inventory(ajs, atech)
    /\ apc' = "collect"
    /\ UNCHANGED <<ajs, atech, arows, awritten>>
    /\ AggOnly

\* the loop of _collect_initial_rows returns the rows
AggCollect ==
    /\ apc = "collect"
    /\ CollectRows(atotals).ok
    /\ arows' = CollectRows(atotals)
    /\ apc' = "write"
    /\ UNCHANGED <<ajs, atech, atotals, awritten>>
    /\ AggOnly

\* the loop raises ValueError, and so does initial_import_to_db, before it
\* connects to the database
AggRaises ==
    /\ apc = "collect"
    /\ ~CollectRows(atotals).ok
    /\ apc' = "raised"
    /\ UNCHANGED <<ajs, atech, atotals, arows, awritten>>
    /\ AggOnly

\* initial_import_to_db: "for owner_type, item_id, amt in rows: cur.execute"
AggWrite ==
    /\ apc = "write"
    /\ awritten' = arows.v
    /\ apc' = "done"
    /\ UNCHANGED <<ajs, atech, atotals, arows>>
    /\ AggOnly

AggNext == AggCall \/ AggCollect \/ AggRaises \/ AggWrite

\* ------------------------------------------------------------------------
\* Specifications
\* ------------------------------------------------------------------------

\* decode_to_json_bytes on framed, plain and container inputs
LaterIdle == StoreIdle /\ SessIdle /\ TsIdle /\ MergeIdle /\ FpIdle /\ ScanIdle /\ LoopIdle /\ ToolIdle /\ PathIdle /\ OwnerIdle /\ BuildIdle /\ LedgerIdle /\ AggIdle

OthersIdle == DiffIdle /\ DedupIdle /\ WalkIdle /\ ItemsIdle /\ RollupIdle /\ LaterIdle

Init == DecodeInit /\ SliceIdle /\ OthersIdle

Next == DecodeNext

Spec == Init /\ [][Next]_vars

\* slice_top_level_json on P + J + T
InitSlice == SliceInit /\ DecodeIdle /\ OthersIdle

NextSlice == SliceCall

SpecSlice == InitSlice /\ [][NextSlice]_vars

\* diff_inventories and the ledger rows on a pair of snapshots
InitDiff ==
    DiffInit /\ DecodeIdle /\ SliceIdle /\ DedupIdle /\ WalkIdle /\ ItemsIdle /\ RollupIdle
        /\ LaterIdle

NextDiff == DiffNext

SpecDiff == InitDiff /\ [][NextDiff]_vars

\* the dedup stage over a sequence of records, and over the same again
InitDedup ==
    DedupInit /\ DecodeIdle /\ SliceIdle /\ DiffIdle /\ WalkIdle /\ ItemsIdle /\ RollupIdle
        /\ LaterIdle

NextDedup == DedupNext

SpecDedup == InitDedup /\ [][NextDedup]_vars

\* the extractor and compute_rows walking a decoded save
InitWalk ==
    WalkInit /\ DecodeIdle /\ SliceIdle /\ DiffIdle /\ DedupIdle /\ ItemsIdle /\ RollupIdle
        /\ LaterIdle

NextWalk == WalkNext

SpecWalk == InitWalk /\ [][NextWalk]_vars

\* db_import_initial reading one decoded save
InitItems ==
    ItemsInit /\ DecodeIdle /\ SliceIdle /\ DiffIdle /\ DedupIdle /\ WalkIdle /\ RollupIdle
        /\ LaterIdle

NextItems == ItemsNext

SpecItems == InitItems /\ [][NextItems]_vars

\* find_sections and compute_inventory_rollup on one document
InitRollup ==
    RollupInit /\ DecodeIdle /\ SliceIdle /\ DiffIdle /\ DedupIdle /\ WalkIdle /\ ItemsIdle
        /\ LaterIdle

NextRollup == RollupNext

SpecRollup == InitRollup /\ [][NextRollup]_vars

\* db_import_initial over a manifest, twice, its statements executed by a store
InitStore ==
    StoreInit /\ DecodeIdle /\ SliceIdle /\ DiffIdle /\ DedupIdle /\ WalkIdle /\ ItemsIdle
        /\ RollupIdle /\ SessIdle /\ TsIdle /\ MergeIdle /\ FpIdle /\ ScanIdle /\ LoopIdle /\ ToolIdle /\ PathIdle /\ OwnerIdle /\ BuildIdle /\ LedgerIdle /\ AggIdle

NextStore == StoreNext

SpecStore == InitStore /\ [][NextStore]_vars

\* coalesce_sessions on rows in every order
InitSess ==
    SessInit /\ DecodeIdle /\ SliceIdle /\ DiffIdle /\ DedupIdle /\ WalkIdle /\ ItemsIdle
        /\ RollupIdle /\ StoreIdle /\ TsIdle /\ MergeIdle /\ FpIdle /\ ScanIdle /\ LoopIdle /\ ToolIdle /\ PathIdle /\ OwnerIdle /\ BuildIdle /\ LedgerIdle /\ AggIdle

NextSess == SessNext

SpecSess == InitSess /\ [][NextSess]_vars

\* canonical_ts_from_file on a snapshot file
InitTs ==
    TsInit /\ DecodeIdle /\ SliceIdle /\ DiffIdle /\ DedupIdle /\ WalkIdle /\ ItemsIdle
        /\ RollupIdle /\ StoreIdle /\ SessIdle /\ MergeIdle /\ FpIdle /\ ScanIdle /\ LoopIdle /\ ToolIdle /\ PathIdle /\ OwnerIdle /\ BuildIdle /\ LedgerIdle /\ AggIdle

NextTs == TsNext

SpecTs == InitTs /\ [][NextTs]_vars

\* nms_fullparse: find_sections, then the sections map
InitMerge ==
    MergeInit /\ DecodeIdle /\ SliceIdle /\ DiffIdle /\ DedupIdle /\ WalkIdle /\ ItemsIdle
        /\ RollupIdle /\ StoreIdle /\ SessIdle /\ TsIdle /\ FpIdle /\ ScanIdle /\ LoopIdle /\ ToolIdle /\ PathIdle /\ OwnerIdle /\ BuildIdle /\ LedgerIdle /\ AggIdle

NextMerge == MergeNext

SpecMerge == InitMerge /\ [][NextMerge]_vars

\* compute_rows on two documents
InitFp ==
    FpInit /\ DecodeIdle /\ SliceIdle /\ DiffIdle /\ DedupIdle /\ WalkIdle /\ ItemsIdle
        /\ RollupIdle /\ StoreIdle /\ SessIdle /\ TsIdle /\ MergeIdle /\ ScanIdle /\ LoopIdle /\ ToolIdle /\ PathIdle /\ OwnerIdle /\ BuildIdle /\ LedgerIdle /\ AggIdle

NextFp == FpNext

SpecFp == InitFp /\ [][NextFp]_vars

\* decode_hg_blocks_scan_all on files of blocks, headers and other bytes
InitScan ==
    ScanInit /\ DecodeIdle /\ SliceIdle /\ DiffIdle /\ DedupIdle /\ WalkIdle /\ ItemsIdle
        /\ RollupIdle /\ StoreIdle /\ SessIdle /\ TsIdle /\ MergeIdle /\ FpIdle /\ LoopIdle /\ ToolIdle /\ PathIdle /\ OwnerIdle /\ BuildIdle /\ LedgerIdle /\ AggIdle

NextScan == ScanNext

SpecScan == InitScan /\ [][NextScan]_vars

\* the loops of decode_hg_blocks_scan_all and of slice_top_level_json, one
\* or the other; the program runs on: an iteration that can be taken is taken
\* the pieces of a file whose scan is followed to its end
MaxLoopPieces == 1

\* the files of at most MaxLoopPieces pieces, and one of four pieces: a
\* payload that does not decompress, whose bytes hold a block, then a header
\* with comp_sz = 0, a block and the magic alone
LoopFiles ==
    {Concat(ps) : ps \in UNION {[1..n -> ScanPieces] : n \in 0..MaxLoopPieces}}
    \cup {RawBlock(Len(HgBlock(<<99>>)), 40, HgBlock(<<99>>)) \o RawBlock(0, 3, <<>>)
              \o HgBlock(<<97, 98>>) \o magic_bytes}

InitLoops ==
    /\ DecodeIdle /\ SliceIdle /\ DiffIdle /\ DedupIdle /\ WalkIdle /\ ItemsIdle /\ RollupIdle
    /\ StoreIdle /\ SessIdle /\ TsIdle /\ MergeIdle /\ FpIdle /\ ToolIdle /\ PathIdle /\ OwnerIdle /\ BuildIdle /\ LedgerIdle /\ AggIdle
    /\ \/ (\E b \in LoopFiles : ScanStart(b)) /\ LoopIdle
       \/ LoopInit /\ ScanIdle

NextLoops == ScanNext \/ LoopNext

SpecLoops == InitLoops /\ [][NextLoops]_vars /\ WF_vars(NextLoops)

\* run_nmssavetool with and without a decoder_hint, out_json absent or left
\* by an earlier run
InitTool ==
    /\ DecodeIdle /\ SliceIdle /\ DiffIdle /\ DedupIdle /\ WalkIdle /\ ItemsIdle /\ RollupIdle
    /\ StoreIdle /\ SessIdle /\ TsIdle /\ MergeIdle /\ FpIdle /\ ScanIdle /\ LoopIdle
    /\ ToolInit /\ PathIdle /\ OwnerIdle /\ BuildIdle /\ LedgerIdle /\ AggIdle

NextTool == ToolNext

SpecTool == InitTool /\ [][NextTool]_vars

\* a path printed by path_to_string and parsed back by parse_path_string
InitPath ==
    /\ DecodeIdle /\ SliceIdle /\ DiffIdle /\ DedupIdle /\ WalkIdle /\ ItemsIdle /\ RollupIdle
    /\ StoreIdle /\ SessIdle /\ TsIdle /\ MergeIdle /\ FpIdle /\ ScanIdle /\ LoopIdle
    /\ ToolIdle /\ OwnerIdle /\ BuildIdle /\ LedgerIdle /\ AggIdle
    /\ PathInit

NextPath == PathNext

SpecPath == InitPath /\ [][NextPath]_vars

\* the owner of a slot path as the extractor and as the fingerprint infer it
InitOwner ==
    /\ DecodeIdle /\ SliceIdle /\ DiffIdle /\ DedupIdle /\ WalkIdle /\ ItemsIdle /\ RollupIdle
    /\ StoreIdle /\ SessIdle /\ TsIdle /\ MergeIdle /\ FpIdle /\ ScanIdle /\ LoopIdle
    /\ ToolIdle /\ PathIdle /\ BuildIdle /\ LedgerIdle /\ AggIdle
    /\ OwnerInit

NextOwner == OwnerNext

SpecOwner == InitOwner /\ [][NextOwner]_vars

\* up to MaxWriters invocations of build_manifest and a reader, interleaved
InitBuild ==
    /\ DecodeIdle /\ SliceIdle /\ DiffIdle /\ DedupIdle /\ WalkIdle /\ ItemsIdle /\ RollupIdle
    /\ StoreIdle /\ SessIdle /\ TsIdle /\ MergeIdle /\ FpIdle /\ ScanIdle /\ LoopIdle
    /\ ToolIdle /\ PathIdle /\ OwnerIdle /\ LedgerIdle /\ AggIdle
    /\ BuildInit

NextBuild == BuildNext

SpecBuild == InitBuild /\ [][NextBuild]_vars

\* run_ledger over up to MaxSnaps snapshots in every order
InitLedger ==
    /\ DecodeIdle /\ SliceIdle /\ DiffIdle /\ DedupIdle /\ WalkIdle /\ ItemsIdle /\ RollupIdle
    /\ StoreIdle /\ SessIdle /\ TsIdle /\ MergeIdle /\ FpIdle /\ ScanIdle /\ LoopIdle
    /\ ToolIdle /\ PathIdle /\ OwnerIdle /\ BuildIdle /\ AggIdle
    /\ LedgerInit

NextLedger == LedgerNext

SpecLedger == InitLedger /\ [][NextLedger]_vars

\* the initial import of the ledger package over full-parse documents
InitAgg ==
    /\ DecodeIdle /\ SliceIdle /\ DiffIdle /\ DedupIdle /\ WalkIdle /\ ItemsIdle /\ RollupIdle
    /\ StoreIdle /\ SessIdle /\ TsIdle /\ MergeIdle /\ FpIdle /\ ScanIdle /\ LoopIdle
    /\ ToolIdle /\ PathIdle /\ OwnerIdle /\ BuildIdle /\ LedgerIdle
    /\ AggInit

NextAgg == AggNext

SpecAgg == InitAgg /\ [][NextAgg]_vars

\* decode_to_json_bytes on plain JSON files in six encodings
InitPlainEncoded == InitEncoded /\ SliceIdle /\ OthersIdle

NextPlainEncoded == DecodeNext

SpecEncoded == InitPlainEncoded /\ [][NextPlainEncoded]_vars

\* ------------------------------------------------------------------------
\* Properties
\* ------------------------------------------------------------------------

\* json.loads(b.decode("utf-8"))
LoadsText(text) == IF text.ok THEN json_loads(text.v) ELSE None

ParseBytes(b) == LoadsText(decode_utf8(b))

DecodeDone == dpc \in {"returned", "raised"}

\* C1: for every well-formed JSON value V and every split of its UTF-8 text
\* into blocks (with non-magic bytes between the blocks), decode_to_json_bytes
\* returns bytes that parse to a value deep-equal to V.
C1_RoundTrip ==
    (src.kind = "framed" /\ DecodeDone) =>
        /\ dpc = "returned"
        /\ ParseBytes(ret.v).ok
        /\ JEq(ParseBytes(ret.v).v, ParseBytes(src.text).v)

\* The round trip of C1 holds for every text of the model but the one whose
\* string holds an unpaired surrogate escape.
C1_RoundTripButLoneSurrogate ==
    (src.kind = "framed" /\ DecodeDone /\ src.text # JsonText8) =>
        /\ dpc = "returned"
        /\ tried = <<"plain", "hg">>
        /\ ParseBytes(ret.v).ok
        /\ JEq(ParseBytes(ret.v).v, ParseBytes(src.text).v)

\* C2: on a buffer P + J + T (J a well-formed object or array whose strings
\* may hold brackets, escaped quotes and backslashes, P without '{' and '[',
\* T arbitrary) slice_top_level_json returns (start, end) with
\* buf[start:end] = J exactly.
C2_SliceExact ==
    spc = "done" =>
        /\ sres.ok
        /\ sres.v = <<Len(sparts.P), Len(sparts.P) + Len(sparts.J)>>
        /\ PySlice(sbuf, sres.v) = sparts.J

\* C2 witness: the object of the specification's example, whose string holds
\* '}' and '{', sliced out from between a prefix and a tail that begins with
\* a closing bracket
C2_Witness ==
    /\ spc = "done"
    /\ sparts.J = SliceText6
    /\ sparts.P = <<125, 93>>
    /\ sparts.T = <<125, 34>>
    /\ sres.ok
    /\ PySlice(sbuf, sres.v) = SliceText6

\* the steps of decode_to_json_bytes in the order of the code
StageOrder == <<"plain", "hg", "gzip", "lz4f", "zlib", "last">>

\* the five wrappings: StageOrder without the last-chance step
Wrappings == SubSeq(StageOrder, 1, 5)

\* what a decompressor step gets from its decompressor
Unwrapped(stage) ==
    CASE stage = "gzip" -> gz
      [] stage = "lz4f" -> decode_lz4_frame(raw, lzf)
      [] stage = "zlib" -> zl

\* the JSON bytes a step yields on the input, None when it yields none
StageResult(stage) ==
    CASE stage = "plain" -> try_decode_variants(raw)
      [] stage = "hg" -> HgResult(raw)
      [] stage \in {"gzip", "lz4f", "zlib"} -> JsonOf(Unwrapped(stage))
      [] stage = "last" -> try_decode_variants(RStripNul(raw))

\* whether a step ends the call: plain and HG when they yield JSON, a
\* decompressor step when the decompression works, the last step always
StageEnds(stage) ==
    CASE stage \in {"plain", "hg"} -> StageResult(stage).ok
      [] stage \in {"gzip", "lz4f", "zlib"} -> Unwrapped(stage).ok
      [] stage = "last" -> TRUE

IsPrefix(a, b) == Len(a) <= Len(b) /\ a = SubSeq(b, 1, Len(a))

\* C10 as stated: the five wrappings are attempted in order, the bytes
\* returned are those of the first wrapping that succeeds, and the call
\* raises when none of the five succeeds.
C10_FiveWrappings ==
    DecodeDone =>
        /\ dpc = "returned" =>
              \E k \in 1..5 :
                  /\ tried = SubSeq(Wrappings, 1, k)
                  /\ ret = StageResult(Wrappings[k])
                  /\ \A j \in 1..(k - 1) : ~StageResult(Wrappings[j]).ok
        /\ (\A k \in 1..5 : ~StageResult(Wrappings[k]).ok) => dpc = "raised"

\* C10: the steps are attempted strictly in the order plain, HG blocks,
\* gzip, LZ4 frame, zlib, last-chance plain decode of the input without its
\* trailing NULs; a step is attempted only after every earlier one has
\* failed; the bytes returned are those of the last step attempted, which is
\* the first to succeed; the call raises only at a decompressor step whose
\* output holds no JSON, or when all six steps have failed.
C10_SixSteps ==
    /\ IsPrefix(tried, StageOrder)
    /\ \A k \in 1..(Len(tried) - 1) : ~StageEnds(StageOrder[k])
    /\ ~DecodeDone => (tried # StageOrder /\ dpc = StageOrder[Len(tried) + 1])
    /\ DecodeDone =>
          /\ tried # <<>>
          /\ StageEnds(tried[Len(tried)])
          /\ ret = StageResult(tried[Len(tried)])
          /\ dpc = (IF ret.ok THEN "returned" ELSE "raised")
    /\ dpc = "raised" => tried[Len(tried)] \in {"gzip", "lz4f", "zlib", "last"}

\* C10 witness: an input on which the five wrappings fail and the sixth step
\* returns the JSON
C10_Witness ==
    /\ dpc = "returned"
    /\ tried = StageOrder
    /\ \A k \in 1..5 : ~StageResult(StageOrder[k]).ok
    /\ ret = encode_utf8(json_dumps(ParseBytes(src.text).v))

\* C3 as stated: the result of diff_inventories(A, B) holds exactly the keys
\* of dom(A) and dom(B) whose amounts differ, each mapped to
\* B.get(k, 0) - A.get(k, 0); keys with equal amounts are not in the result.
C3_OmitsEqualKeys ==
    lpc \in {"rows", "done"} =>
        /\ DOMAIN delta = {k \in DOMAIN prev_inv \cup DOMAIN cur_inv :
                              DictGet(prev_inv, k, 0) # DictGet(cur_inv, k, 0)}
        /\ \A k \in DOMAIN delta : delta[k] = DictGet(cur_inv, k, 0) - DictGet(prev_inv, k, 0)

\* C3: the result of diff_inventories(A, B) holds exactly the keys of dom(A)
\* and dom(B), each mapped to B.get(k, 0) - A.get(k, 0): a key whose amounts
\* are equal is in the result with 0, a key absent from both is not in it.
\* The keys with 0 are dropped afterwards, by the loop that makes the ledger
\* rows.
C3_DiffOfEveryKey ==
    /\ lpc \in {"rows", "done"} =>
          /\ DOMAIN delta = DOMAIN prev_inv \cup DOMAIN cur_inv
          /\ \A k \in DOMAIN delta :
                delta[k] = DictGet(cur_inv, k, 0) - DictGet(prev_inv, k, 0)
    /\ lpc = "done" =>
          /\ {r.resource_id : r \in ledger_rows} =
                 {k \in DOMAIN prev_inv \cup DOMAIN cur_inv :
                     DictGet(prev_inv, k, 0) # DictGet(cur_inv, k, 0)}
          /\ \A r \in ledger_rows :
                r.net = DictGet(cur_inv, r.resource_id, 0) - DictGet(prev_inv, r.resource_id, 0)

\* C3 witness: a resource held in equal amounts by both snapshots is in the
\* result with 0 and in no row, next to a resource only the earlier snapshot
\* holds
C3_Witness ==
    /\ lpc = "done"
    /\ 1 \in DOMAIN prev_inv /\ 1 \in DOMAIN cur_inv /\ prev_inv[1] = cur_inv[1]
    /\ 1 \in DOMAIN delta /\ delta[1] = 0
    /\ 2 \in DOMAIN prev_inv /\ 2 \notin DOMAIN cur_inv /\ prev_inv[2] > 0
    /\ delta[2] = 0 - prev_inv[2]
    /\ {r.resource_id : r \in ledger_rows} = {2}

\* the amounts of a seen map, key by key
AmountsOf(sn) == [k \in DOMAIN sn |-> sn[k].amt]

\* C4: running the dedup stage over R followed by R again leaves the same
\* set of (owner, inventory, container, slot_index, resource) -> amount
\* entries as running it over R once, also for records whose container id
\* has no "IDX" part.
C4_RerunSameEntries ==
    (pass = 2 /\ rpos > Len(recs)) => AmountsOf(seen) = AmountsOf(seen_once)

\* the largest amount consumed for key
MaxConsumed(key) ==
    CHOOSE m \in {consumed[i].amt : i \in {j \in DOMAIN consumed : consumed[j].key = key}} :
        \A i \in DOMAIN consumed : consumed[i].key = key => consumed[i].amt <= m

\* C5: whatever records the dedup stage has consumed, and in whatever order,
\* the keys stored are the keys consumed and the amount stored for a key is
\* the maximum amount among the consumed records with that key.
C5_MaxWins ==
    /\ DOMAIN seen = {consumed[i].key : i \in DOMAIN consumed}
    /\ \A key \in DOMAIN seen : seen[key].amt = MaxConsumed(key)

\* C5 witness: a key consumed first with the larger and then with the
\* smaller amount keeps the larger
C5_Witness ==
    /\ pass = 1
    /\ \E i, j \in DOMAIN consumed :
          /\ i < j
          /\ consumed[i].key = consumed[j].key
          /\ consumed[i].amt > consumed[j].amt
          /\ seen[consumed[i].key].amt = consumed[i].amt

\* the key under which a reported row is added up
CountedKey(row) ==
    IF wprog = "extract" THEN row.resource_id ELSE <<row.owner_type, row.resource_id>>

\* the sum of the amounts reported under key k in the first n rows
RECURSIVE CountedFor(_, _)
CountedFor(k, n) ==
    IF n = 0 THEN 0
    ELSE CountedFor(k, n - 1) + (IF CountedKey(counted[n]) = k THEN counted[n].amount ELSE 0)

\* C6: the amount reported for a slot that obj_is_slot accepts and whose
\* capacity is a positive integer never exceeds the capacity, in the rows of
\* the extractor and in what compute_rows adds up; 9999 of a resource in a
\* slot of capacity 250 is reported as 250.
C6_AmountWithinCap ==
    /\ \A i \in DOMAIN counted :
          /\ counted[i].cap > 0 => counted[i].amount <= counted[i].cap
          /\ (counted[i].raw_amount = 9999 /\ counted[i].cap = 250) => counted[i].amount = 250
    /\ \A k \in DOMAIN totals : totals[k] = CountedFor(k, Len(counted))
    /\ (obj_is_slot(wsrc.slot) /\ PyInt(JGet(wsrc.slot, K_F9q)) > 0) =>
          /\ _amount(wsrc.slot) <= PyInt(JGet(wsrc.slot, K_F9q))
          /\ ExtractAmount(PyInt(JGet(wsrc.slot, K_1o9)), PyInt(JGet(wsrc.slot, K_F9q)))
                 <= PyInt(JGet(wsrc.slot, K_F9q))

\* C6 witness: the extractor has reported 250 for a slot holding 9999 with
\* capacity 250
C6_Witness ==
    /\ wprog = "extract"
    /\ wpc = "done"
    /\ \E i \in DOMAIN counted :
          counted[i].raw_amount = 9999 /\ counted[i].cap = 250 /\ counted[i].amount = 250

\* "^S", two digits and "_": a season counter
SeasonCounter(rid) ==
    /\ Len(rid) >= 5
    /\ SubSeq(rid, 1, 2) = <<94, 83>>
    /\ IsDigit(rid[3]) /\ IsDigit(rid[4])
    /\ rid[5] = 95

\* a resource id on the deny-list of the specification: "^S", two digits and
\* "_", or "^" and one of the fixed progress prefixes
Denied(rid) ==
    \/ SeasonCounter(rid)
    \/ /\ Len(rid) >= 1
       /\ rid[1] = 94
       /\ \E p \in bad_prefixes : StartsWith(Tail(rid), p)

\* C7: no slot whose resource id is a season counter ("^S", two digits, "_")
\* or starts with a fixed progress prefix adds to the totals or slot rows of
\* nms_extract_inventory or to the rows of compute_rows, whatever its amount
\* and capacity.
C7_DeniedNeverCounted ==
    /\ \A i \in DOMAIN counted : ~Denied(counted[i].resource_id)
    /\ \A k \in DOMAIN totals :
          IF wprog = "extract" THEN ~Denied(k) ELSE ~Denied(k[2])
    /\ wpc = "done" =>
          IF wprog = "extract"
          THEN \A i \in DOMAIN wout.totals_csv : ~Denied(wout.totals_csv[i][1])
          ELSE \A i \in DOMAIN wout.rows :
                   ~Contains(wout.rows[i], <<124>> \o S_S19_X \o <<124>>)

\* C7 witness: compute_rows has walked a document whose ^S19_X slot holds 5
\* of capacity 250 under the suit, and its rows hold the other slot only
C7_Witness ==
    /\ wprog = "fingerprint"
    /\ wpc = "done"
    /\ wsrc = [layout |-> "nested", slot |-> Slot(S_S19_X, JInt(5), JInt(250), S_Substance)]
    /\ Len(counted) = 1
    /\ Len(wout.rows) = 1

\* C8: walk_items never yields, and db_import_initial never emits a row of
\* nms_items for, a slot whose resource id is a season counter ("^S", two
\* digits, "_"), whatever its amount, index and type fields.
C8_NoSeasonCounterRows ==
    /\ \A i \in DOMAIN yielded : ~SeasonCounter(yielded[i].rid)
    /\ \A r \in rows : ~SeasonCounter(r.resource_id)

\* the printed paths of the slot arrays of the parent object
ListPaths ==
    {path_to_string(Append(ParentPath(shape.layout), JStr(ListKey(i)))) :
        i \in DOMAIN shape.lens}

RECURSIVE SumOf(_, _)
SumOf(lens, i) == IF i > Len(lens) THEN 0 ELSE lens[i] + SumOf(lens, i + 1)

\* the containers counted for the slot arrays of the parent object
ContainersOfParent ==
    {i \in DOMAIN containers : Range(containers[i].children) \cap ListPaths # {}}

\* C9: a parent object, at the document root, under a top-level key or
\* deeper, that holds k slot arrays is counted by compute_inventory_rollup on
\* find_sections' index as exactly one container whose slot total is the sum
\* of the k lengths when 1 <= k <= 3 (48 and 20 give one container of 68),
\* and as no container when k > 3.
C9_OneContainerPerParent ==
    spc2 = "done" =>
        IF Len(shape.lens) <= 3
        THEN /\ Cardinality(ContainersOfParent) = 1
             /\ \A i \in ContainersOfParent : containers[i].total = SumOf(shape.lens, 1)
             /\ rollup.totals.containers = 1
             /\ rollup.totals.total = SumOf(shape.lens, 1)
        ELSE /\ ContainersOfParent = {}
             /\ rollup.totals.containers = 0

\* C11: once the stream of the second run over the same manifest and the
\* same decoded JSON has been executed, nms_snapshots and nms_items hold
\* exactly the rows they held when the stream of the first run had been
\* executed: no row more, no amount changed.  This holds for a unique key of
\* nms_items with and without the resource.
C11_RerunSameRows == mpc = "done" => Tables = once

\* the second run is through for a manifest of two snapshots, and one of its
\* inserts met a row of another resource with a smaller amount
C11_Witness ==
    /\ mpc = "done"
    /\ Cardinality(DOMAIN nms_snapshots) = 2
    /\ \E i \in DOMAIN stream, k \in DOMAIN nms_items :
          /\ stream[i].op = "INSERT INTO nms_items"
          /\ nms_items[k].owner_type = stream[i].owner_type
          /\ nms_items[k].slot_index = stream[i].slot_index
          /\ nms_items[k].resource_id # stream[i].resource_id
          /\ nms_items[k].amount > stream[i].amount

\* C12: in the stream of a manifest each snapshot's inserts sit in a
\* START TRANSACTION ... COMMIT pair of their own: the insert of a snapshot
\* directly follows a START TRANSACTION, a COMMIT comes before the next
\* snapshot's insert, and when an insert fails the rows of the snapshots
\* whose inserts were all executed before are still in the store.
SnapshotsBefore(n) ==
    {i \in 1..n : stream[i].op = "INSERT INTO nms_snapshots"}

C12_TransactionPerSnapshot ==
    /\ \A i \in SnapshotsBefore(Len(stream)) :
          /\ stream[i - 1].op = "START TRANSACTION"
          /\ \A j \in SnapshotsBefore(Len(stream)) :
                j > i => \E c \in (i + 1)..(j - 1) : stream[c].op = "COMMIT"
    /\ mpc = "failed" =>
          \A i \in SnapshotsBefore(apos) :
              (\E j \in SnapshotsBefore(apos) : j > i)
                  => SnapshotKey(stream[i]) \in DOMAIN nms_snapshots

\* the sessions one after the other
RECURSIVE Flatten(_)
Flatten(ss) == IF ss = <<>> THEN <<>> ELSE Head(ss) \o Flatten(Tail(ss))

\* the session the i-th row of Flatten(ss) is in
RECURSIVE SessionAt(_, _)
SessionAt(ss, i) ==
    IF i <= Len(Head(ss)) THEN 1 ELSE 1 + SessionAt(Tail(ss), i - Len(Head(ss)))

\* C13: the sessions of ledger_core.coalesce_sessions partition the rows in
\* ascending timestamp order: no session is empty, one after the other they
\* hold every row handed in exactly once with timestamps that never
\* decrease, and two neighbouring rows are in the same session iff their gap
\* is <= the threshold (a new session starts exactly when the gap exceeds it).
C13_SessionsPartition ==
    cpc = "done" =>
        /\ \A s \in DOMAIN sessions : sessions[s] # <<>>
        /\ Len(Flatten(sessions)) = Len(srows)
        /\ \A r \in DOMAIN srows : \E i \in DOMAIN Flatten(sessions) : Flatten(sessions)[i] = srows[r]
        /\ \A i \in 2..Len(srows) :
              /\ Flatten(sessions)[i - 1].ts <= Flatten(sessions)[i].ts
              /\ (SessionAt(sessions, i - 1) = SessionAt(sessions, i))
                     <=> (Flatten(sessions)[i].ts - Flatten(sessions)[i - 1].ts <= max_gap)
              /\ SessionAt(sessions, i) \in {SessionAt(sessions, i - 1), SessionAt(sessions, i - 1) + 1}

\* three rows handed in out of order come back as two sessions, the first
\* closed by a gap equal to the threshold
C13_Witness ==
    /\ cpc = "done"
    /\ Len(srows) = 3
    /\ srows[1].ts > srows[2].ts
    /\ Len(sessions) = 2
    /\ Len(sessions[1]) = 2
    /\ sessions[1][2].ts - sessions[1][1].ts = max_gap

\* C14: for every snapshot file and every use_mtime, both
\* canonical_ts_from_file return the timestamp of the document whenever the
\* document carries one that parses; the modification time is returned only
\* when it does not; and the name of the file, which comes after the
\* modification time (every file has one), is never what decides.
C14_DocumentFirst ==
    tpc = "done" =>
        /\ DocTimestamp(tsfile, parse_any_timestamp).ok
               => ts_ledger = FromDoc(DocTimestamp(tsfile, parse_any_timestamp))
        /\ DocTimestamp(tsfile, parse_any_timestamp_v3).ok
               => ts_v3 = FromDoc(DocTimestamp(tsfile, parse_any_timestamp_v3))
        /\ ts_ledger.from # "name"
        /\ ts_v3.from # "name"

\* no element of a list twice
NoDuplicates(s) == \A i, j \in DOMAIN s : s[i] = s[j] => i = j

\* the place of the first x in a list of JSON strings
FirstPlace(v, x) == CHOOSE i \in DOMAIN v : v[i].v = x /\ \A j \in 1..(i - 1) : v[j].v # x

\* s is the list v of JSON strings with its duplicates removed
IsDeduped(s, v) ==
    /\ NoDuplicates(s)
    /\ Range(s) = {v[i].v : i \in DOMAIN v}
    /\ \A i, j \in DOMAIN s : i < j => FirstPlace(v, s[i]) < FirstPlace(v, s[j])

\* the list the map holds under category c: none when the map has no list there
MappedList(c) ==
    IF sections_map.ok /\ c \in DOMAIN sections_map.v /\ sections_map.v[c].t = "list"
    THEN sections_map.v[c].v ELSE <<>>

HeuristicList(c) == IF c \in DOMAIN heuristic THEN heuristic[c] ELSE <<>>

\* the inventories of the map take the place of the heuristic ones
InventoriesSupplied == MappedList("inventories") # <<>>

MapApplied ==
    /\ sections_map.ok
    /\ ~("inventories" \in DOMAIN sections_map.v
           /\ sections_map.v["inventories"].t \in {"int", "bool"}
           /\ Truthy(sections_map.v["inventories"]))

C16_EncodingLadder ==
    (src.kind = "encoded" /\ DecodeDone /\ src.text # JsonText8) =>
        /\ dpc = "returned"
        /\ ParseBytes(ret.v).ok
        /\ JEq(ParseBytes(ret.v).v, ParseBytes(src.text).v)


\* C17: every item row that db_import_initial derives from walk_items has a
\* resource_id beginning with '^', an amount >= 0, an owner_type in {SUIT,
\* SHIP, FREIGHTER, VEHICLE, STORAGE, UNKNOWN}, an inventory kind in
\* {GENERAL, TECH, CARGO} and an item_type in {Product, Substance,
\* Technology}.
C17_SlotRecordWellFormed ==
    ipc = "done" =>
        \A r \in rows :
            /\ r.resource_id # <<>> /\ r.resource_id[1] = 94
            /\ r.amount >= 0
            /\ r.owner_type \in {S_SUIT, S_SHIP, S_FREIGHTER, S_VEHICLE, S_STORAGE, S_UNKNOWN}
            /\ r.inventory \in {S_GENERAL, <<84, 69, 67, 72>>, S_CARGO}
            /\ r.item_type \in ItemTypes


\* the dict d has an int under key
HasInt(d, key) == DictHas(d.v, key) /\ JGet(d, key).t = "int"

\* d carries the amount field and the stack-cap field: "Amount" next to
\* "MaxAmount" or "StackSize", or "1o9" next to "F9q"
AmountNextToCap(d) ==
    /\ d.t = "dict"
    /\ \/ /\ HasInt(d, <<65, 109, 111, 117, 110, 116>>)
          /\ \/ HasInt(d, <<77, 97, 120, 65, 109, 111, 117, 110, 116>>)
             \/ HasInt(d, <<83, 116, 97, 99, 107, 83, 105, 122, 101>>)
       \/ HasInt(d, K_1o9) /\ HasInt(d, K_F9q)

\* the value of the amount field of such a dict
AmountField(d) ==
    IF HasInt(d, <<65, 109, 111, 117, 110, 116>>) THEN JGet(d, <<65, 109, 111, 117, 110, 116>>).v
    ELSE JGet(d, K_1o9).v

\* C18: for every slot dict that carries both the amount field and the
\* stack-cap field, get_amount_from returns the value of the amount field
\* and never the cap's value.
C18_AmountOverCap ==
    ipc # "walk" =>
        \A i \in DOMAIN walk_with_path(idoc, <<>>) :
            AmountNextToCap(walk_with_path(idoc, <<>>)[i].val) =>
                get_amount_from(walk_with_path(idoc, <<>>)[i].val)
                    = Some(AmountField(walk_with_path(idoc, <<>>)[i].val))


\* the (owner, resource) pairs of accepted slots
AcceptedKeys(acc) == {acc[i].key : i \in DOMAIN acc}

\* the sum of the accepted slots of key among the first n
RECURSIVE AcceptedSum(_, _, _)
AcceptedSum(acc, key, n) ==
    IF n = 0 THEN 0
    ELSE AcceptedSum(acc, key, n - 1) + (IF acc[n].key = key THEN acc[n].amount ELSE 0)

\* the row of key for accepted slots
RowFor(acc, key) == FingerprintRow(key, AcceptedSum(acc, key, Len(acc)))

\* rows_ holds one row per pair of acc with a positive total, in the order
\* of (owner, resource)
RowsAsPromised(acc, rows_) ==
    /\ Len(rows_) = Cardinality(AcceptedKeys(acc))
    /\ \A i \in DOMAIN rows_ :
          \E k \in AcceptedKeys(acc) :
              /\ AcceptedSum(acc, k, Len(acc)) > 0
              /\ rows_[i] = RowFor(acc, k)
              /\ \A j \in DOMAIN rows_ : i < j =>
                    \E m \in AcceptedKeys(acc) :
                        /\ rows_[j] = RowFor(acc, m)
                        /\ \/ StrLess(k[1], m[1])
                           \/ k[1] = m[1] /\ StrLess(k[2], m[2])

\* the accepted slots of two documents sum to the same totals
SameTotals(a, b) ==
    /\ AcceptedKeys(a) = AcceptedKeys(b)
    /\ \A k \in AcceptedKeys(a) : AcceptedSum(a, k, Len(a)) = AcceptedSum(b, k, Len(b))

\* C19: compute_rows returns one 'owner|resource|total' row per (owner,
\* resource) pair with a positive total, sorted by (owner, resource); two
\* documents whose accepted slots sum to the same totals give the same rows
\* and the same fingerprint, whatever the order of keys and slots and the
\* order of the walk.
C19_FingerprintDeterminism ==
    fpc = "done" =>
        /\ RowsAsPromised(fdocs[1].accepted, frows[1])
        /\ RowsAsPromised(fdocs[2].accepted, frows[2])
        /\ SameTotals(fdocs[1].accepted, fdocs[2].accepted) =>
              frows[1] = frows[2] /\ fprints[1] = fprints[2]

\* C19 witness: two documents of different slots and a different order of
\* keys whose accepted slots sum to the same totals for two pairs; totals
\* was filled in a different order for each, and the rows are the same
C19_Witness ==
    /\ fpc = "done"
    /\ Len(fdocs[1].ps) = 2
    /\ fdocs[1].ps # fdocs[2].ps
    /\ fdocs[1].doc.v[1][1] # fdocs[2].doc.v[1][1]
    /\ SameTotals(fdocs[1].accepted, fdocs[2].accepted)
    /\ Len(frows[1]) = 2
    /\ frows[1] = frows[2]
    /\ InsertionOrder(ComputeTotals(<<[path |-> <<>>, val |-> fdocs[1].doc]>>, <<>>))
           # InsertionOrder(ComputeTotals(<<[path |-> <<>>, val |-> fdocs[2].doc]>>, <<>>))


\* the offset at which the payload of an accepted block ends
FoundEnd(f) == f[1] + HeaderSize + f[2]

\* the payload of the block found at offset f[1], decompressed
PayloadAt(b, f) == lz4_block_decompress(SubSeq(b, f[1] + HeaderSize + 1, FoundEnd(f)), f[3])

\* the payloads of the first n blocks of found, one after the other
RECURSIVE Stitch(_, _, _)
Stitch(b, found, n) ==
    IF n = 0 THEN <<>> ELSE Stitch(b, found, n - 1) \o PayloadAt(b, found[n]).v

IsAccepted(turn) == turn.kind = "accepted"

\* Len(out) before the i-th turn
OutBefore(i) == IF i = 1 THEN 0 ELSE hturns[i - 1].out_len

\* C20: in decode_hg_blocks_scan_all the output is the concatenation, in
\* increasing file offset, of the decompressed payloads of exactly the
\* accepted blocks; accepted blocks never overlap (the scan resumes at the
\* end of an accepted payload); a match whose payload fails to decompress
\* adds no bytes and the scan resumes one byte after it; and the function
\* raises when no block was accepted.
C20_ScanAndStitch ==
    /\ hout = Stitch(hb, hfound, Len(hfound))
    /\ \A i \in DOMAIN hfound : PayloadAt(hb, hfound[i]).ok
    /\ Len(SelectSeq(hturns, IsAccepted)) = Len(hfound)
    /\ \A i \in DOMAIN hfound : SelectSeq(hturns, IsAccepted)[i].idx = hfound[i][1]
    /\ \A i \in DOMAIN hfound : i > 1 => hfound[i][1] >= FoundEnd(hfound[i - 1])
    /\ \A i \in DOMAIN hturns :
          /\ i > 1 => hturns[i].idx >= hturns[i - 1].pos
          /\ hturns[i].kind = "accepted" =>
                hturns[i].pos = hturns[i].idx + HeaderSize + LE32(hb, hturns[i].idx + 5)
          /\ hturns[i].kind = "failed" =>
                hturns[i].pos = hturns[i].idx + 1 /\ hturns[i].out_len = OutBefore(i)
    /\ hpc = "returned" => hfound # <<>> /\ hret = Some([out |-> hout, found |-> hfound])
    /\ hpc = "raised" => hfound = <<>> /\ hret = None
    /\ (hpc # "scan" /\ hfound = <<>>) => hpc = "raised"

\* C20 witness: the header at offset 0 is followed by a payload that does
\* not decompress, the scan has gone on at offset 1 and accepted the block
\* inside that payload at offset 16 and a second block after it
C20_Witness ==
    /\ hpc = "returned"
    /\ Len(hfound) = 2
    /\ hturns[1].kind = "failed"
    /\ hturns[2].kind = "accepted"
    /\ hturns[2].idx = 16
    /\ hout = <<99, 97, 98>>


\* an iteration of a loop moves its scan position forward: pos in
\* decode_hg_blocks_scan_all; i in the skip loops and from one iteration of
\* the outer loop of slice_top_level_json to the next, j in its inner loop
ScanMovesOn ==
    /\ Len(hturns') > Len(hturns) => hpos' > hpos
    /\ ki' >= ki
    /\ (kpc \in {"skip", "restart"} /\ kpc' = kpc) => ki' > ki
    /\ (kpc = "outer" /\ kpc' = "outer") => ki' > ki
    /\ (kpc = "inner" /\ kpc' = "inner") => kj' > kj
    /\ (kpc = "inner" /\ kpc' = "restart") => ki' > ki

\* no position goes past the end of the buffer
WithinBuffer ==
    /\ hpos <= Len(hb) + 1
    /\ ki <= Len(kbuf) + 1
    /\ kj <= Len(kbuf) + 1

\* both functions have returned or raised
LoopsOver == hpc \in {"idle", "returned", "raised"} /\ kpc \in {"idle", "done"}

\* C21: for every finite input buffer the loops of decode_hg_blocks_scan_all
\* and slice_top_level_json terminate: the scan position strictly increases
\* on every iteration on every branch (zero compressed size, payload past
\* the end, decompression failure, accepted block, restart at the next
\* opening bracket) and stays within the buffer.
C21_ScanTermination == [][ScanMovesOn]_vars /\ []WithinBuffer /\ <>LoopsOver

\* C21 witness: slice_top_level_json has returned None for three bytes after
\* starting at each of three opening brackets in turn
C21_Witness ==
    /\ kpc = "done"
    /\ kres = None
    /\ Len(kbuf) = 3
    /\ kstart = 3

\* ------------------------------------------------------------------------
\* run_nmssavetool: the ladder of invocation forms
\* ------------------------------------------------------------------------

\* a step that runs the form attempts[nnext]
RanForm == npc = "run" /\ (nnext' = nnext + 1 \/ npc' = "returned")

\* the JSON a form yields itself, b"" when it yields none: from the file if
\* it wrote one, else from its streams
OwnData(o) == IF o.wrote.ok THEN slice_to_json(o.wrote.v) ELSE FromStreams(o)

\* the form exits zero and yields JSON
FormSucceeds(o) == o.rc = 0 /\ OwnData(o) # <<>>

\* errors lists the first n attempts in their order
ListsAttempts(errs, n) ==
    /\ Len(errs) = n
    /\ \A k \in 1..n : errs[k][1] = attempts[k].argv

\* the form that ran was the next in order; if it succeeded the call
\* returns with its output in out_json, else it is listed and the next is on
LadderStep ==
    RanForm =>
        /\ nlast'.ok
        /\ ListsAttempts(nerrors, nnext - 1)
        /\ IF FormSucceeds(nlast'.v)
           THEN /\ npc' = "returned"
                /\ nfile' = Some(OwnData(nlast'.v))
                /\ nerrors' = nerrors
           ELSE /\ npc' = "run"
                /\ nnext' = nnext + 1
                /\ ListsAttempts(nerrors', nnext)

\* the fatal error comes after the last form only and lists every attempt
FatalStep == npc' = "fatal" /\ npc # "fatal" => nnext > Len(attempts) /\ ListsAttempts(nerrors, Len(attempts))

\* C22: the forms are tried strictly in the listed order; the call returns at
\* the first form that exits zero and yields output that begins with "{" or
\* "[", with that output in out_json and no later form run; a form that
\* exits non-zero or yields no JSON is followed by the next; the fatal error
\* is raised only after all forms were tried and lists them all
C22_RetryLadder == [][LadderStep /\ FatalStep]_vars

\* ------------------------------------------------------------------------
\* db_import_initial: entries whose decoded JSON cannot be read
\* ------------------------------------------------------------------------

\* an entry with both paths whose JSON was read
Readable(entry) == entry.source_path # <<>> /\ entry.out_json # <<>> /\ entry.data.ok

\* the stream with the statements of the readable entries only
StreamOfReadable(items_meta) ==
    <<[op |-> "SET NAMES"], [op |-> "SET time_zone"], [op |-> "START TRANSACTION"]>>
        \o ManifestStatements(SelectSeq(items_meta, Readable), 1) \o <<[op |-> "COMMIT"]>>

\* C23: an entry whose decoded JSON cannot be read or parsed is skipped as a
\* whole: the stream holds neither a snapshot statement nor an item statement
\* for it, holds the statements of the other entries, and ends with COMMIT
C23_UnreadableEntrySkipped ==
    stream # <<>> => stream = StreamOfReadable(manifest) /\ stream[Len(stream)].op = "COMMIT"

\* ------------------------------------------------------------------------
\* run_ledger: the rows of a diffed pair
\* ------------------------------------------------------------------------

\* acquired and spent are the positive and the negative part of net
Classified(r) ==
    /\ r.net # 0
    /\ r.acquired = Max2(r.net, 0)
    /\ r.spent = Max2(0 - r.net, 0)
    /\ (r.acquired = 0) # (r.spent = 0)
    /\ r.acquired - r.spent = r.net

\* C24: every row written for a diffed pair has net # 0, acquired =
\* max(net, 0) and spent = max(-net, 0), so that exactly one of the two is
\* not 0 and acquired - spent = net; a resource whose quantity is the same in
\* both snapshots has no row
C24_RowClassification ==
    lpc = "done" =>
        /\ \A r \in ledger_rows : Classified(r)
        /\ \A k \in DOMAIN prev_inv \cup DOMAIN cur_inv :
              DictGet(prev_inv, k, 0) = DictGet(cur_inv, k, 0)
                  => \A r \in ledger_rows : r.resource_id # k

\* C24 witness: a row for a resource that was spent, none for a resource
\* both snapshots hold in the same amount
C24_Witness ==
    /\ lpc = "done"
    /\ 1 \in DOMAIN prev_inv /\ 1 \in DOMAIN cur_inv /\ prev_inv[1] > cur_inv[1]
    /\ 2 \in DOMAIN prev_inv /\ 2 \in DOMAIN cur_inv /\ prev_inv[2] = cur_inv[2] /\ cur_inv[2] > 0
    /\ \E r \in ledger_rows : r.resource_id = 1 /\ r.spent > 0 /\ r.acquired = 0
    /\ \A r \in ledger_rows : r.resource_id # 2

\* ------------------------------------------------------------------------
\* utils/paths.py: the round trip of a path
\* ------------------------------------------------------------------------

\* C25: parse_path_string(path_to_string(p)) = p for every path p, whatever
\* its keys hold
C25_PathRoundTrip == ppc = "done" => pback = Some(ppath)

\* ------------------------------------------------------------------------
\* owner inference: the fingerprint mirrors the extractor
\* ------------------------------------------------------------------------

OwnerLabels == {S_SUIT, S_SHIP, S_FREIGHTER, S_STORAGE, S_VEHICLE, S_UNKNOWN}

\* an owner token is one of the keys of the path
HasOwnerToken(path) == StrSegs(path) \cap {K_l5, K_Pm, K_IP, K_3Nc, K_8ZP} # {}

\* C26: for every slot path the fingerprint's _infer_owner and the extractor
\* give the same owner, one of SUIT, SHIP, FREIGHTER, STORAGE, VEHICLE and
\* UNKNOWN, and UNKNOWN exactly when no owner token occurs in the path
C26_OwnerMirror ==
    opc = "done" =>
        /\ ofp = oext
        /\ ofp \in OwnerLabels
        /\ ofp = S_UNKNOWN <=> ~HasOwnerToken(opath)

\* ------------------------------------------------------------------------
\* build_manifest: the manifest a reader finds
\* ------------------------------------------------------------------------

\* a manifest as one invocation wrote it
CompleteManifests == {OldManifest} \cup {ManifestOf(p) : p \in 1..MaxWriters}

\* C27: under every interleaving of the invocations with a reader the file at
\* the final path is absent or a complete manifest written by one invocation,
\* and the reader never reads an empty, truncated or mixed document
C27_AtomicManifest ==
    /\ bfinal # 0 => binodes[bfinal] \in CompleteManifests
    /\ bseen.state = "read" => bseen.v \in CompleteManifests

\* ------------------------------------------------------------------------
\* db_import_initial: the stored amounts over the imports
\* ------------------------------------------------------------------------

\* the places of the statements the store has executed and not rolled back:
\* both runs print the same stream
AppliedStatements ==
    IF mpc = "failed" THEN (IF run = 2 THEN DOMAIN stream ELSE {})
    ELSE IF run = 2 THEN DOMAIN stream ELSE 1..apos

\* the key of the snapshot the i-th statement of the stream belongs to
SnapshotOfStatement(i) ==
    SnapshotKey(stream[CHOOSE j \in SnapshotsBefore(i) : \A h \in SnapshotsBefore(i) : h <= j])

\* the executed item statements that met the row under key k
StatementsOfRow(k) ==
    {i \in AppliedStatements :
        /\ stream[i].op = "INSERT INTO nms_items"
        /\ SnapshotOfStatement(i) \in DOMAIN nms_snapshots
        /\ ItemKey(uk_rid, nms_snapshots[SnapshotOfStatement(i)].snapshot_id, stream[i]) = k}

\* no row of the table is gone or holds less after the step
NoAmountLower(before, after) ==
    \A k \in DOMAIN before : k \in DOMAIN after /\ after[k].amount >= before[k].amount

\* C28: the amount stored for a slot of a snapshot is the greatest amount any
\* executed item statement gave for it, and no step other than the rollback
\* of a failed run lowers a stored amount or removes a row; what is committed
\* is never lowered.  So when a snapshot is imported again from a decoded
\* save in which the slot holds less, the greater amount stays.
MaxEmitted ==
    \A k \in DOMAIN nms_items :
        /\ StatementsOfRow(k) # {}
        /\ \A i \in StatementsOfRow(k) : stream[i].amount <= nms_items[k].amount
        /\ \E i \in StatementsOfRow(k) : stream[i].amount = nms_items[k].amount

NeverLower ==
    /\ mpc' # "failed" => NoAmountLower(nms_items, nms_items')
    /\ NoAmountLower(durable.items, durable'.items)

C28_AmountsMonotone == [](mpc # "idle" => MaxEmitted) /\ [][NeverLower]_vars

\* a statement of the second entry of the same snapshot has been executed
\* that gives a slot less than the row holds, and the row was left by a
\* statement of the first entry with the same resource
C28_Witness ==
    /\ mpc = "apply" /\ run = 1 /\ apos > 0
    /\ stream[apos].op = "INSERT INTO nms_items"
    /\ Cardinality(DOMAIN nms_snapshots) = 1
    /\ \E k \in DOMAIN nms_items :
          /\ apos \in StatementsOfRow(k)
          /\ stream[apos].amount < nms_items[k].amount
          /\ \E j \in StatementsOfRow(k) :
                /\ j < apos
                /\ stream[j].resource_id = stream[apos].resource_id
                /\ stream[j].amount = nms_items[k].amount

\* ------------------------------------------------------------------------
\* run_ledger: what the ledger of several snapshots adds up to
\* ------------------------------------------------------------------------

\* the snapshots were loaded in the order of their timestamps
LoadedInOrder == \A i \in 1..(Len(qinput) - 1) : qinput[i].ts <= qinput[i + 1].ts

\* the places of the snapshots that end a session, when a new session starts
\* wherever the gap to the snapshot before exceeds the threshold
EndsByGap ==
    {i \in DOMAIN qinput : i = Len(qinput) \/ qinput[i + 1].ts - qinput[i].ts > 60 * qminutes}

\* the same, when a threshold of zero or less makes every snapshot a session
\* of its own
EndsOrAll == IF qminutes <= 0 THEN DOMAIN qinput ELSE EndsByGap

\* the n-th place of a set of places
NthOf(places, n) == CHOOSE i \in places : Cardinality({h \in places : h <= i}) = n

\* the snapshots at the places, in order
SnapsAt(places) == [n \in 1..Cardinality(places) |-> qinput[NthOf(places, n)]]

\* the quantity of a resource in a snapshot
QuantityIn(snap, rid) == DictGet(snap.inv, rid, 0)

\* the sum of acquired minus the sum of spent over the rows of a resource
\* from the i-th row on
RECURSIVE NetOfRows(_, _)
NetOfRows(rid, i) ==
    IF i > Len(qrows) THEN 0
    ELSE (IF qrows[i].resource_id = rid THEN qrows[i].acquired - qrows[i].spent ELSE 0)
         + NetOfRows(rid, i + 1)

\* the ledger of the snapshots when ends are the places that end a session
Telescopes(ends) ==
    /\ qsnaps = SnapsAt(ends)
    /\ \A rid \in DOMAIN qout :
          /\ qout[rid].lifetime_net = NetOfRows(rid, 1)
          /\ qout[rid].lifetime_net =
                 QuantityIn(qinput[Len(qinput)], rid) - QuantityIn(qinput[NthOf(ends, 1)], rid)
    /\ \A i \in DOMAIN qrows :
          \E n \in 1..(Cardinality(ends) - 1) :
             /\ qrows[i].session_start = qinput[NthOf(ends, n)].ts
             /\ qrows[i].session_end = qinput[NthOf(ends, n + 1)].ts
             /\ qrows[i].net = QuantityIn(qinput[NthOf(ends, n + 1)], qrows[i].resource_id)
                                   - QuantityIn(qinput[NthOf(ends, n)], qrows[i].resource_id)
    /\ Cardinality(ends) = 1 => qrows = <<>>

C30_RowsCoverTotals ==
    apc \notin {"aggregate", "collect"} =>
        /\ apc # "raised"
        /\ arows.ok
        /\ Cardinality(arows.v) = Cardinality(DOMAIN atotals)
        /\ \A k \in DOMAIN atotals : <<k[1], k[3], atotals[k]>> \in arows.v
        /\ apc = "done" => awritten = arows.v

=============================================================================
